---- MODULE Spec2Model ----
(***************************************************************************)
(* Event-loop / render-loop orchestration core of rat-salsa-wgpu           *)
(* (src/src/framework.rs): the Startup -> Running transition, the          *)
(* per-event prelude of process_event, its drain loop over the Control     *)
(* Queue, render_tui, shutdown, and the background poll thread of          *)
(* create_poll that forwards poll-source results through the event-loop    *)
(* proxy.                                                                  *)
(*                                                                         *)
(* One main-thread action is one step of the code: the whole prelude of    *)
(* process_event (DeliverWindow, DeliverUser), or one iteration of its     *)
(* drain loop (DrainStep).                                                 *)
(* User callbacks are nondeterministic: they return any Result and may     *)
(* queue entries through the context while they run.                       *)
(***************************************************************************)
EXTENDS Integers, Sequences, FiniteSets, TLC

\* ---------------------------------------------------------------- bounds
\* User callbacks called per process_event invocation before they only
\* answer Continue / Ok(()) and queue nothing (keeps the drain loop finite).
MaxCalls == 2
\* Entries the callbacks of one process_event invocation (and init) queue
\* through the context.
MaxCtxPush == 1
\* Poll sources handed to the poll thread.
NumSources == 2
\* Results in flight between the poll thread and the event loop.
MaxChan == 1

\* ------------------------------------------------------- program constants
\* minimum font size of the Ctrl+wheel gesture
MinFontSize == 7
\* default font size, font_size.unwrap_or(22.0)
DefaultFontSize == 22
\* render passes initialize_terminal runs between init and set_visible(true)
StartupRenders == 0
\* largest font size the model lets the gesture reach
MaxFontSize == 23
\* set_screen_cursor calls of one render
MaxCursorCalls == 2
\* spurious wakeups of the poll thread in Condvar::wait
MaxSpurious == 1
\* event sources in the poll list of a RunConfig
MaxPollCfg == 3
\* window events given to one WinitEventState
MaxModEvents == 2

\* the sleep regime of the poll thread, in microseconds
SLEEP == 250000
BACKOFF == 10000
FAST_SLEEP == 100

\* ------------------------------------------------------------------- data
\* Result<Control<Event>, Error> entries.  tag is the discriminant ("Err"
\* for Err(e)); ev the payload of Event/Close.  role and call are history
\* fields: who pushed the entry ("ext": prelude of process_event or init,
\* "ctx": a callback through the context, "evret"/"erret": the value an
\* event/error callback returned, "rdret": pushed by render_tui) and during
\* which callback call of the current invocation.
Ctl(tag, ev, role, call) == [tag |-> tag, ev |-> ev, role |-> role, call |-> call]

AppEvents == {"Key", "Resize", "QuitEv", "Rendered"}

\* What a user event/error callback can return.
CbResults ==
    { <<"Continue", "-">>, <<"Changed", "-">>, <<"Event", "Key">>,
      <<"Close", "Key">>, <<"Quit", "-">>, <<"Err", "-">> }

\* What a callback can queue through the context (queue, queue_event,
\* queue_err) while it runs.
CtxEntries == { <<"Changed", "-">>, <<"Event", "Key">> }

\* What a poll source's read() / a worker can inject through the proxy.
UserControls ==
    { <<"Continue", "-">>, <<"Unchanged", "-">>, <<"Changed", "-">>,
      <<"Event", "Key">>, <<"Quit", "-">>, <<"Blink", "-">>, <<"Err", "-">> }

\* winit WindowEvents, by the way process_event and the converter treat them.
\* "Key" is converted to an application event, "Other" is suppressed by the
\* converter.
WindowEvents ==
    { "Destroyed", "CloseRequested", "RedrawRequested", "Resized",
      "ScaleFactorChanged", "WheelUp", "WheelDown", "CtrlDown", "CtrlUp",
      "Key", "Other" }

\* What the font blocks of a prelude did: the triggers pending when
\* process_event was called (fc, fsc, clr: the context flags; evt: the event
\* is ScaleFactorChanged or the Ctrl+wheel gesture), the reloads run
\* (blocks) and the Controls they pushed, and all clears of the terminal;
\* steps: the calls of the prelude in their order; rsz: what resized_event
\* answered for a Resized event ("some", "none").
NoFontLog == [fc |-> FALSE, fsc |-> FALSE, clr |-> FALSE, evt |-> FALSE,
              blocks |-> <<>>, pushes |-> 0, clears |-> 0, steps |-> <<>>,
              rsz |-> "-"]

NoDisp == [tag |-> "none", role |-> "-", call |-> 0, collapsed |-> FALSE,
           cb |-> "none", arg |-> "-", ret |-> <<"-", "-">>, shut |-> FALSE]

VARIABLES
    app,                \* WgpuApp: "Startup" | "Invalid" | "Running"
    pc,                 \* main thread: "idle" (in the native event loop) |
                        \* "drain" (in the 'ui loop) | "done" (process_event
                        \* returns) | "panic"
    queue,              \* SalsaAppContext.queue (ControlQueue)
    was_changed,        \* local of process_event
    terminal,           \* Running.terminal is Some
    window,             \* Running.window is Some
    ctx_term,           \* SalsaAppContext.term is Some
    ctx_window,         \* SalsaAppContext.window is Some
    user_term,          \* application code holds a clone from terminal()
    user_win,           \* application code holds a clone from window()
    exited,             \* event_loop.exit() was called
    cancel,             \* Poll.cancel token
    clear_terminal,     \* SalsaAppContext.clear_terminal
    font_changed,       \* SalsaAppContext.font_changed
    font_size_changed,  \* SalsaAppContext.font_size_changed
    font_size,          \* SalsaAppContext.font_size
    ctrl_pressed,       \* converter state: Ctrl modifier
    quit_event,         \* a PollQuit source is configured
    rendered_event,     \* a PollRendered source is configured
    tasks,              \* a PollTasks source (worker pool) is configured
    alive,              \* ThreadPool::check_liveness()
    ppc,                \* poll thread position
    can_start,          \* PollStart.can_start flag
    pidx,               \* poll thread: index of the source polled next
    poll_queue,         \* poll thread: PollQueue of ready indices
    poll_sleep,         \* poll thread: the adaptive sleep, in microseconds
    ready,              \* history: for each source polled in the current
                        \* pass, whether its poll() answered Ok(true)
    chan,               \* results sent through the proxy, not yet delivered
    visible,            \* Window::set_visible(true) was called
    cursor,             \* SalsaAppContext.cursor: "none" or a position
    frame_cursor,       \* cursor of the last frame drawn: "hidden" or a position
    \* history
    cur,                \* what the current/last process_event was called with
    calls,              \* user callbacks called in this invocation
    pushed,             \* entries those callbacks queued through the context
    disp,               \* what the last 'ui loop iteration did
    runLen,             \* Ok(Changed) entries taken in a row (capped at 3)
    runRenders,         \* render passes since that run started
    shutdowns,          \* executions of shutdown()
    vetoed,             \* quit confirmations answered with something else
    quitRet,            \* the event callback returned Ok(Quit)
    first_frame,        \* a render pass ran in initialize_terminal before
                        \* the window was shown
    teardown,           \* the steps shutdown() completed, in order
    fontlog,            \* what the font blocks of the last prelude did
    cursor_reqs,        \* set_screen_cursor calls of the last render
    \* components checked in specifications of their own
    ord,                \* three Control values and what cmp and eq answer
    gate,               \* the start gate step by step: the Mutex, the
                        \* flag, the Condvar, the thread and start()
    split,              \* run_tui: the poll list of the RunConfig and what
                        \* the loop over it leaves
    mods                \* a WinitEventState, the modifiers last reported to
                        \* it and what the accessors of an event answer

mainVars == <<app, pc, queue, was_changed, terminal, window, ctx_term,
              ctx_window, user_term, user_win, exited, cancel,
              clear_terminal, font_changed, font_size_changed, font_size,
              ctrl_pressed>>
cfgVars  == <<quit_event, rendered_event, tasks>>
pollVars == <<ppc, can_start, pidx, poll_queue, poll_sleep, ready>>
histVars == <<cur, calls, pushed, disp, runLen, runRenders, shutdowns, vetoed, quitRet>>
\* the window's visibility and the cursor
screenVars == <<visible, cursor, frame_cursor>>
\* history of startup, shutdown, the prelude and the last render
logVars == <<first_frame, teardown, fontlog, cursor_reqs>>
\* components checked in specifications of their own
compVars == <<ord, gate, split, mods>>
vars == <<mainVars, cfgVars, alive, pollVars, chan, histVars, screenVars, logVars,
          compVars>>

\* ------------------------------------------------------------- Control
\* A Control value: its variant and, for Event and Close, its payload.
ControlValues ==
    {[tag |-> t, ev |-> "-"] : t \in {"Continue", "Unchanged", "Changed", "Quit"}}
        \cup {[tag |-> t, ev |-> e] : t \in {"Event", "Close"}, e \in {"x", "y"}}

\* ControlEq as the derived, structural equality.
ControlEqDerived(a, b) == a = b

\* PartialEq for Control: mem::discriminant(self) == mem::discriminant(other)
ControlEq(a, b) == a.tag = b.tag

\* Ord for Control: the match of cmp, one row per variant of self.
CmpTable ==
    [Continue  |-> [Continue |-> "Equal", Unchanged |-> "Less", Changed |-> "Less",
                    Event |-> "Less", Close |-> "Less", Quit |-> "Less"],
     Unchanged |-> [Continue |-> "Greater", Unchanged |-> "Equal", Changed |-> "Less",
                    Event |-> "Less", Close |-> "Less", Quit |-> "Less"],
     Changed   |-> [Continue |-> "Greater", Unchanged |-> "Greater", Changed |-> "Equal",
                    Event |-> "Less", Close |-> "Less", Quit |-> "Less"],
     Event     |-> [Continue |-> "Greater", Unchanged |-> "Greater", Changed |-> "Greater",
                    Event |-> "Equal", Close |-> "Less", Quit |-> "Less"],
     Close     |-> [Continue |-> "Greater", Unchanged |-> "Greater", Changed |-> "Greater",
                    Event |-> "Greater", Close |-> "Equal", Quit |-> "Less"],
     Quit      |-> [Continue |-> "Greater", Unchanged |-> "Greater", Changed |-> "Greater",
                    Event |-> "Greater", Close |-> "Greater", Quit |-> "Equal"]]

ControlCmp(a, b) == CmpTable[a.tag][b.tag]

\* Nothing compared yet.
NoOrd == [a |-> [tag |-> "Continue", ev |-> "-"], b |-> [tag |-> "Continue", ev |-> "-"],
          c |-> [tag |-> "Continue", ev |-> "-"], done |-> FALSE,
          ab |-> "-", ba |-> "-", bc |-> "-", ac |-> "-", eq_ab |-> FALSE]

\* The start gate before create_poll: t the poll thread ("spawned",
\* "locked": holds the guard, "waiting": in cvar.wait, "loop": in 'l),
\* s initialize_terminal ("init", "start", "locked", "done"), m the owner of
\* the Mutex, flag its bool, woken a pending notification of the waiter,
\* spur the spurious wakeups so far.
NoGate == [t |-> "unspawned", s |-> "init", m |-> "free", flag |-> FALSE,
           woken |-> FALSE, spur |-> 0]

\* run_tui before its loop over cfg.poll: the locals are None (0) and tmp
\* is empty.  A source is named by its position in cfg.poll.
NoSplit == [cfg |-> <<>>, done |-> FALSE, poll |-> <<>>, rendered_ev |-> 0,
            quit_ev |-> 0, timers_ctrl |-> 0, tasks_ctrl |-> 0, tokio_ctrl |-> 0]

\* winit's ModifiersState, as far as update_state reads it.
NoModifiers == [shift |-> FALSE, alt |-> FALSE, control |-> FALSE, super |-> FALSE]

\* WinitEventState::default(), of which the modifier fields are kept.
DefaultState == [m_shift |-> FALSE, m_alt |-> FALSE, m_ctrl |-> FALSE, m_super |-> FALSE]

\* A fresh converter: no event seen (n), nothing reported (last), no event
\* converted (acc: the accessors of the CompositeWinitEvent).
NoMods == [st |-> DefaultState, n |-> 0, last |-> NoModifiers,
           acc |-> [shift_pressed |-> FALSE, alt_pressed |-> FALSE,
                    ctrl_pressed |-> FALSE, super_pressed |-> FALSE]]

\* ------------------------------------------------------- Control Queue
\* ControlQueue::push: append at the tail.
QPush(q, e) == Append(q, e)
\* ControlQueue::take: the oldest entry.
QHead(q) == Head(q)
QRest(q) == Tail(q)
\* ControlQueue::is_empty
QIsEmpty(q) == Len(q) = 0

RECURSIVE QPushAll(_, _)
QPushAll(q, es) == IF es = <<>> THEN q ELSE QPushAll(QPush(q, Head(es)), Tail(es))

InitProgram ==
    /\ app = "Startup"
    /\ pc = "idle"
    /\ queue = <<>>
    /\ was_changed = FALSE
    /\ terminal = FALSE /\ window = FALSE
    /\ ctx_term = FALSE /\ ctx_window = FALSE
    /\ user_term = FALSE /\ user_win = FALSE
    /\ exited = FALSE
    /\ cancel = FALSE
    /\ clear_terminal = FALSE
    /\ font_changed = FALSE
    /\ font_size_changed = FALSE
    /\ font_size = DefaultFontSize
    /\ ctrl_pressed = FALSE
    /\ quit_event \in BOOLEAN
    /\ rendered_event \in BOOLEAN
    /\ tasks \in BOOLEAN
    /\ alive = TRUE
    /\ ppc = "unspawned"
    /\ can_start = FALSE
    /\ pidx = 0
    /\ poll_queue = <<>>
    /\ poll_sleep = SLEEP
    /\ ready = <<>>
    /\ chan = <<>>
    /\ cur = "none"
    /\ calls = 0
    /\ pushed = 0
    /\ disp = NoDisp
    /\ runLen = 0
    /\ runRenders = 0
    /\ shutdowns = 0
    /\ vetoed = 0
    /\ quitRet = FALSE
    /\ visible = FALSE
    /\ cursor = "none"
    /\ frame_cursor = "hidden"
    /\ first_frame = FALSE
    /\ teardown = <<>>
    /\ fontlog = NoFontLog
    /\ cursor_reqs = <<>>

\* The program before resumed(); nothing is being compared.
Init ==
    InitProgram /\ ord = NoOrd /\ gate = NoGate /\ split = NoSplit /\ mods = NoMods


\* ------------------------------------------------------------ user code
Continue == <<"Continue", "-">>
OkQuit   == <<"Quit", "-">>

RECURSIVE SeqsUpTo(_, _)
SeqsUpTo(S, n) ==
    IF n = 0 THEN {<<>>}
    ELSE LET R == SeqsUpTo(S, n - 1)
         IN  R \cup {Append(r, x) : r \in {t \in R : Len(t) = n - 1}, x \in S}

\* Side effects of a callback on the context besides queueing.
CbActs == {"clone_term", "drop_term", "clone_win", "drop_win",
           "set_font_size", "set_font_family", "clear_terminal"}

\* The behaviours of one event/error callback call: the value it returns,
\* what it queues through the context meanwhile, and one other use of the
\* context.  Once MaxCalls callbacks ran in this invocation only the
\* behaviour "return Continue" is left, and the callbacks of one invocation
\* queue MaxCtxPush entries between them.
CbChoices(n, acts) ==
    IF n < MaxCalls
    THEN {[ret |-> r, ctx |-> c, act |-> "none"] :
              r \in CbResults, c \in SeqsUpTo(CtxEntries, MaxCtxPush - pushed)}
         \cup {[ret |-> Continue, ctx |-> <<>>, act |-> a] : a \in acts}
    ELSE {[ret |-> Continue, ctx |-> <<>>, act |-> "none"]}

\* The behaviours of one render call: Ok(()) or Err(e).
RenderChoices(n) == IF n < MaxCalls THEN {"Ok", "Err"} ELSE {"Ok"}

RECURSIVE CtxCtls(_, _)
CtxCtls(c, k) ==
    IF c = <<>> THEN <<>>
    ELSE <<Ctl(Head(c)[1], Head(c)[2], "ctx", k)>> \o CtxCtls(Tail(c), k)

\* SalsaContext::terminal(), window(), set_font_size(), set_font_family(),
\* clear_terminal() as called from a callback.
ActUserTerm(a) == IF a = "clone_term" THEN TRUE
                  ELSE IF a = "drop_term" THEN FALSE ELSE user_term
ActUserWin(a)  == IF a = "clone_win" THEN TRUE
                  ELSE IF a = "drop_win" THEN FALSE ELSE user_win
ActFontSizeChanged(a) == IF a = "set_font_size" THEN TRUE ELSE font_size_changed
\* set_font_size(size), called with the minimum size of the wheel gesture
ActFontSize(a) == IF a = "set_font_size" THEN MinFontSize ELSE font_size
ActFontChanged(a)     == IF a = "set_font_family" THEN TRUE ELSE font_changed
ActClearTerminal(a)   == IF a = "clear_terminal" THEN TRUE ELSE clear_terminal
\* terminal() / window() expect the context's handle
ActPanics(a) == \/ a = "clone_term" /\ ~ctx_term
                \/ a \in {"clone_win", "set_font_size", "set_font_family",
                          "clear_terminal"} /\ ~ctx_window

\* ------------------------------------------------------ initialize_terminal
\* resumed(): Startup -> Running.  The window and the terminal are created,
\* the poll thread is spawned behind its start gate, the context is
\* installed, init is called, the window is shown, Running is installed and
\* the gate is opened.
\* InitQueue with the context installed only after init ran: what init
\* queued is not in the installed queue.
InitQueueLate(c) == <<>>

\* The context's queue when init returns: set_salsa_ctx installed
\* ControlQueue::default() before init was called, so it holds what init
\* queued through the context.
InitQueue(c) == QPushAll(<<>>, CtxCtls(c, 0))

\* StartupExpected that lets initialize_terminal run in every state.
StartupExpectedAlways == TRUE

\* matches!(app, WgpuApp::Startup(_)), else panic!("expected startup state")
StartupExpected == app = "Startup"

Resumed ==
    /\ pc = "idle"
    /\ ~exited
    /\ IF ~StartupExpected
       THEN /\ pc' = "panic"
            /\ UNCHANGED <<app, queue, terminal, window, ctx_term, ctx_window,
                           can_start, ppc, pushed, visible, first_frame>>
       ELSE \E ok \in BOOLEAN, c \in SeqsUpTo(CtxEntries, MaxCtxPush) :
            /\ ppc' = "gate"
            /\ ctx_term' = TRUE /\ ctx_window' = TRUE
            /\ IF ok
               THEN /\ app' = "Running"
                    /\ terminal' = TRUE /\ window' = TRUE
                    /\ queue' = InitQueue(c)
                    /\ pushed' = Len(c)
                    /\ visible' = TRUE
                    /\ first_frame' = (StartupRenders >= 1)
                    /\ can_start' = TRUE
                    /\ pc' = "idle"
               ELSE \* init(..).expect("init")
                    /\ app' = "Invalid"
                    /\ pc' = "panic"
                    /\ UNCHANGED <<queue, terminal, window, can_start, pushed,
                                   visible, first_frame>>
    /\ cur' = "Resumed"
    /\ UNCHANGED <<was_changed, user_term, user_win, exited, cancel,
                   clear_terminal, font_changed, font_size_changed, font_size,
                   ctrl_pressed, cfgVars, compVars, alive, pidx, poll_queue, poll_sleep,
                   ready, chan,
                   calls, disp, runLen, runRenders, shutdowns, vetoed, quitRet,
                   cursor, frame_cursor, teardown, fontlog, cursor_reqs>>

\* ------------------------------------------------------------- shutdown
\* ShutdownRes that drops the core's handles and leaves the context's
\* copies in place.
ShutdownResKeepsContext ==
    [panic |-> FALSE, ctx_term |-> ctx_term, terminal |-> FALSE,
     ctx_window |-> ctx_window, window |-> FALSE, cancel |-> TRUE,
     log |-> <<"terminal", "window", "cancel">>]

\* ShutdownRes that only stops the poll thread and keeps the handles.
ShutdownResKeepsHandles ==
    [panic |-> FALSE, ctx_term |-> ctx_term, terminal |-> terminal,
     ctx_window |-> ctx_window, window |-> window, cancel |-> TRUE,
     log |-> <<"cancel">>]

\* ShutdownRes without the strong_count assertions.
ShutdownResNoAssert ==
    [panic |-> FALSE, ctx_term |-> FALSE, terminal |-> FALSE,
     ctx_window |-> FALSE, window |-> FALSE, cancel |-> TRUE,
     log |-> <<"ctx_term", "terminal", "ctx_window", "window", "cancel">>]

\* shutdown(): drop the context's terminal, then the core's (panic when it
\* is still referenced), the same for the window, then Poll::shutdown().
\* log: the steps completed, in the order of the code.
ShutdownRes ==
    IF ~ctx_term \/ ~terminal
    THEN [panic |-> TRUE, ctx_term |-> FALSE, terminal |-> terminal,
          ctx_window |-> ctx_window, window |-> window, cancel |-> cancel,
          log |-> <<>>]
    ELSE IF user_term
    THEN [panic |-> TRUE, ctx_term |-> FALSE, terminal |-> FALSE,
          ctx_window |-> ctx_window, window |-> window, cancel |-> cancel,
          log |-> <<"ctx_term">>]
    ELSE IF ~ctx_window \/ ~window
    THEN [panic |-> TRUE, ctx_term |-> FALSE, terminal |-> FALSE,
          ctx_window |-> FALSE, window |-> window, cancel |-> cancel,
          log |-> <<"ctx_term", "terminal">>]
    ELSE IF user_win
    THEN [panic |-> TRUE, ctx_term |-> FALSE, terminal |-> FALSE,
          ctx_window |-> FALSE, window |-> FALSE, cancel |-> cancel,
          log |-> <<"ctx_term", "terminal", "ctx_window">>]
    ELSE [panic |-> FALSE, ctx_term |-> FALSE, terminal |-> FALSE,
          ctx_window |-> FALSE, window |-> FALSE, cancel |-> TRUE,
          log |-> <<"ctx_term", "terminal", "ctx_window", "window", "cancel">>]

\* The part of a 'ui iteration that runs shutdown() and breaks the loop.
DoShutdown ==
    LET r == ShutdownRes IN
    /\ ctx_term' = r.ctx_term /\ terminal' = r.terminal
    /\ ctx_window' = r.ctx_window /\ window' = r.window
    /\ cancel' = r.cancel
    /\ pc' = IF r.panic THEN "panic" ELSE "done"
    /\ shutdowns' = shutdowns + 1
    /\ teardown' = r.log

NoShutdown ==
    /\ UNCHANGED <<ctx_term, terminal, ctx_window, window, cancel, shutdowns,
                   teardown>>


\* ------------------------------------------------- process_event: prelude
\* ConvertEvent::update_state: the tracked Ctrl modifier.
UpdateState(ev) ==
    IF ev = "CtrlDown" THEN TRUE ELSE IF ev = "CtrlUp" THEN FALSE ELSE ctrl_pressed

\* SkipEvent without the guard.
SkipEventNever == FALSE

\* "skip event during shutdown."
SkipEvent == ~terminal \/ ~window

\* ResizedCtl of a prelude that never asks the converter.
ResizedCtlChanged(conv) == Ctl("Changed", "-", "ext", 0)

\* resized_event(app): Event(resize) when the converter yields one, else
\* Changed.
ResizedCtl(conv) ==
    IF conv THEN Ctl("Event", "Resize", "ext", 0) ELSE Ctl("Changed", "-", "ext", 0)

\* WindowPush that does not answer CloseRequested.
WindowPushNoQuit(q, ev, conv) ==
    IF ev = "RedrawRequested" THEN QPush(q, Ctl("Changed", "-", "ext", 0))
    ELSE IF ev = "Resized" THEN QPush(q, ResizedCtl(conv))
    ELSE q

\* CloseRequested, RedrawRequested and Resized are answered by a push.
WindowPush(q, ev, conv) ==
    IF ev = "CloseRequested" THEN QPush(q, Ctl("Quit", "-", "ext", 0))
    ELSE IF ev = "RedrawRequested" THEN QPush(q, Ctl("Changed", "-", "ext", 0))
    ELSE IF ev = "Resized" THEN QPush(q, ResizedCtl(conv))
    ELSE q

\* The Ctrl+wheel gesture applies.
IsFontGesture(ev, ctrl) == ctrl /\ ev \in {"WheelUp", "WheelDown"}

\* WheelFontSize without the floor at the minimum size.
WheelFontSizeNoFloor(ev, ctrl) ==
    IF ~IsFontGesture(ev, ctrl) THEN font_size
    ELSE IF ev = "WheelUp" THEN font_size - 1 ELSE font_size + 1

\* font_size after the Ctrl+wheel gesture: a line delta dy > 0 ("WheelUp")
\* takes one unit off a size above the minimum, any other adds one.
WheelFontSize(ev, ctrl) ==
    IF ~IsFontGesture(ev, ctrl) THEN font_size
    ELSE IF ev = "WheelUp"
         THEN (IF font_size > MinFontSize THEN font_size - 1 ELSE font_size)
         ELSE font_size + 1

\* FontBlocks of a prelude that resets the flags and leaves the reloads to
\* the render pass.
FontBlocksLazy(fc, fsc) == <<>>

\* FontBlocks with a font_changed block that leaves font_size_changed set.
FontBlocksBoth(fc, fsc) ==
    (IF fc THEN <<"reload_fonts">> ELSE <<>>)
        \o (IF fsc THEN <<"change_font_size">> ELSE <<>>)

\* The reloads the font_changed and font_size_changed blocks run; fc and
\* fsc are the flags as the event left them.  The font_changed block
\* clears both flags, so the font_size_changed block is skipped after it.
FontBlocks(fc, fsc) ==
    LET fsc1 == IF fc THEN FALSE ELSE fsc
    IN  (IF fc THEN <<"reload_fonts">> ELSE <<>>)
            \o (IF fsc1 THEN <<"change_font_size">> ELSE <<>>)

\* The queue after the font_changed and font_size_changed blocks; fsc is
\* font_size_changed as the event left it.  Every block that runs pushes
\* the resize-equivalent Control.
FontPush(q, fsc, conv) ==
    QPushAll(q, [i \in 1..Len(FontBlocks(font_changed, fsc)) |-> ResizedCtl(conv)])

\* font_size_changed as the event leaves it.
EventFontSizeChanged(ev, ctrl) ==
    font_size_changed \/ ev = "ScaleFactorChanged" \/ IsFontGesture(ev, ctrl)

\* ConvertEvent::convert of an event left over by the interceptions.
Converts(ev, ctrl) ==
    \/ ev = "Key"
    \/ ev \in {"WheelUp", "WheelDown"} /\ ~IsFontGesture(ev, ctrl)

\* The window events an interception of the prelude consumes ("event =
\* None"); ctrl is the Ctrl modifier as update_state left it.
Intercepted(ev, ctrl) ==
    \/ ev \in {"CloseRequested", "RedrawRequested", "Resized", "ScaleFactorChanged"}
    \/ IsFontGesture(ev, ctrl)

\* What the interception of the event ev calls.
InterceptSteps(ev, ctrl) ==
    IF ev = "CloseRequested" THEN <<"push_quit">>
    ELSE IF ev = "RedrawRequested" THEN <<"push_changed">>
    ELSE IF ev = "Resized"
         THEN <<"backend_resize", "window_size", "set_window_size", "clear",
                "resized_event", "push_resized">>
    ELSE IF ev = "ScaleFactorChanged" THEN <<"set_font_size_changed">>
    ELSE IF IsFontGesture(ev, ctrl) THEN <<"font_size", "set_font_size_changed">>
    ELSE <<>>

\* What the flag blocks call: the pending clear, then the reloads.
RECURSIVE BlockSteps(_)
BlockSteps(blocks) ==
    IF blocks = <<>> THEN <<>>
    ELSE <<Head(blocks), "clear", "resized_event", "push_resized">>
             \o BlockSteps(Tail(blocks))

\* PreludeSteps of a prelude that updates the tracked state only for the
\* events it converts.
PreludeStepsLate(ev, ctrl) ==
    InterceptSteps(ev, ctrl)
        \o (IF clear_terminal THEN <<"clear">> ELSE <<>>)
        \o BlockSteps(FontBlocks(font_changed, EventFontSizeChanged(ev, ctrl)))
        \o (IF ev # "User" /\ ~Intercepted(ev, ctrl)
            THEN <<"update_state", "convert">> ELSE <<>>)
        \o (IF Converts(ev, ctrl) THEN <<"push_event">> ELSE <<>>)
        \o (IF ev = "User" THEN <<"push_user">> ELSE <<>>)

\* The calls of the prelude in their order, for the window event ev or the
\* injected Result ("User").
PreludeSteps(ev, ctrl) ==
    (IF ev # "User" THEN <<"update_state">> ELSE <<>>)
        \o InterceptSteps(ev, ctrl)
        \o (IF clear_terminal THEN <<"clear">> ELSE <<>>)
        \o BlockSteps(FontBlocks(font_changed, EventFontSizeChanged(ev, ctrl)))
        \o (IF ev # "User" /\ ~Intercepted(ev, ctrl) THEN <<"convert">> ELSE <<>>)
        \o (IF Converts(ev, ctrl) THEN <<"push_event">> ELSE <<>>)
        \o (IF ev = "User" THEN <<"push_user">> ELSE <<>>)

\* What the prelude did about fonts and clears.
FontLog(ev, ctrl, conv) ==
    LET blocks == FontBlocks(font_changed, EventFontSizeChanged(ev, ctrl))
    IN  [fc |-> font_changed, fsc |-> font_size_changed, clr |-> clear_terminal,
         evt |-> (ev = "ScaleFactorChanged" \/ IsFontGesture(ev, ctrl)),
         blocks |-> blocks,
         pushes |-> Len(FontPush(<<>>, EventFontSizeChanged(ev, ctrl), conv)),
         clears |-> (IF ev = "Resized" THEN 1 ELSE 0)
                    + (IF clear_terminal THEN 1 ELSE 0) + Len(blocks),
         steps |-> PreludeSteps(ev, ctrl),
         rsz |-> IF ev = "Resized" THEN (IF conv THEN "some" ELSE "none") ELSE "-"]

\* The queue when the drain loop is entered: ev is the window event or
\* "User", usr the injected Result (a <<tag, ev>> pair).
Prelude(ev, usr, conv) ==
    LET ctrl == UpdateState(ev)
        q1 == WindowPush(queue, ev, conv)
        fsc == EventFontSizeChanged(ev, ctrl)
        q2 == FontPush(q1, fsc, conv)
        q3 == IF Converts(ev, ctrl) THEN QPush(q2, Ctl("Event", "Key", "ext", 0)) ELSE q2
    IN  IF ev = "User" THEN QPush(q3, Ctl(usr[1], usr[2], "ext", 0)) ELSE q3

\* DestroyedExits without the early exit.
DestroyedExitsNever(ev) == FALSE

\* "window destroyed. exit event-loop."
DestroyedExits(ev) == ev = "Destroyed"

\* process_event up to the 'ui loop.
ProcessEvent(ev, usr, conv) ==
    /\ pc = "idle"
    /\ app = "Running"      \* no window and no started poll thread before
    /\ cur' = ev
    /\ IF DestroyedExits(ev)
       THEN /\ exited' = TRUE
            /\ pc' = "done"
            /\ UNCHANGED <<queue, was_changed, clear_terminal, font_changed,
                           font_size_changed, font_size, ctrl_pressed, fontlog>>
       ELSE IF SkipEvent
       THEN /\ pc' = "done"
            /\ UNCHANGED <<queue, was_changed, clear_terminal, font_changed,
                           font_size_changed, font_size, ctrl_pressed, exited,
                           fontlog>>
       ELSE /\ ctrl_pressed' = UpdateState(ev)
            /\ fontlog' = FontLog(ev, UpdateState(ev), conv)
            /\ font_size' = WheelFontSize(ev, UpdateState(ev))
            /\ font_size' <= MaxFontSize
            /\ clear_terminal' = FALSE
            /\ font_changed' = FALSE
            /\ font_size_changed' = FALSE
            /\ queue' = Prelude(ev, usr, conv)
            /\ was_changed' = FALSE
            /\ pc' = "drain"
            /\ UNCHANGED exited
    /\ UNCHANGED <<app, terminal, window, ctx_term, ctx_window, user_term,
                   user_win, cancel, cfgVars, compVars, alive, pollVars, shutdowns,
                   calls, pushed, disp, runLen, runRenders, vetoed, quitRet,
                   screenVars, first_frame, teardown, cursor_reqs>>

\* process_event or initialize_terminal called in a state they do not
\* expect: panic!("not initialized") before Running is installed.
EarlyEvent ==
    /\ pc = "idle"
    /\ app # "Running"
    /\ \E ev \in {"Key", "User"} : cur' = ev
    /\ pc' = "panic"
    /\ UNCHANGED <<app, queue, was_changed, terminal, window, ctx_term,
                   ctx_window, user_term, user_win, exited, cancel,
                   clear_terminal, font_changed, font_size_changed, font_size,
                   ctrl_pressed, cfgVars, compVars, alive, pollVars, chan, calls, pushed,
                   disp, runLen, runRenders, shutdowns, vetoed, quitRet,
                   screenVars, logVars>>

\* ApplicationHandler::window_event, for the window events in evs
DeliverWindow(evs) ==
    \E ev \in evs, conv \in BOOLEAN :
        /\ ProcessEvent(ev, Continue, conv)
        /\ UNCHANGED chan

\* ApplicationHandler::user_event: the oldest Result the poll thread sent
\* through the proxy.
DeliverChan ==
    /\ chan # <<>>
    /\ \E conv \in BOOLEAN : ProcessEvent("User", Head(chan), conv)
    /\ chan' = Tail(chan)

\* ApplicationHandler::user_event: any Result sent through the proxy.
DeliverUser ==
    /\ \E u \in UserControls, conv \in BOOLEAN : ProcessEvent("User", u, conv)
    /\ UNCHANGED chan

\* process_event returns to the native event loop; its locals and the
\* history of the invocation are gone.
Return ==
    /\ pc = "done"
    /\ pc' = "idle"
    /\ was_changed' = FALSE
    /\ cur' = "none" /\ calls' = 0 /\ pushed' = 0 /\ disp' = NoDisp
    /\ runLen' = 0 /\ runRenders' = 0 /\ vetoed' = 0 /\ quitRet' = FALSE
    /\ fontlog' = NoFontLog /\ cursor_reqs' = <<>>
    /\ UNCHANGED <<app, queue, terminal, window, ctx_term, ctx_window,
                   user_term, user_win, exited, cancel, clear_terminal,
                   font_changed, font_size_changed, font_size, ctrl_pressed,
                   cfgVars, compVars, alive, pollVars, chan, shutdowns, screenVars,
                   first_frame, teardown>>


\* ---------------------------------------------- process_event: 'ui loop
\* LivenessFailed without the check.
LivenessFailedNever == FALSE

\* "panic on worker panic": a thread pool is configured and reports a dead
\* worker.
LivenessFailed == tasks /\ ~alive

\* Collapses without the filter: every Ok(Changed) is rendered.
CollapsesNever(c, wc) == FALSE

\* "filter out double Changed events": the taken entry is skipped.
Collapses(c, wc) == c.tag = "Changed" /\ wc

\* NextWasChanged of a marker that only a render pass would reset.
NextWasChangedKept(c) == c.tag = "Changed" \/ was_changed

\* was_changed after the entry c was taken and not skipped.
NextWasChanged(c) == c.tag = "Changed"

\* PushReturn with the returned value pushed before the callback's own
\* entries.
PushReturnFirst(q, ctx, r) == QPushAll(QPush(q, r), ctx)

\* PushReturn with the returned value pushed twice.
PushReturnTwice(q, ctx, r) == QPush(QPush(QPushAll(q, ctx), r), r)

\* The queue after a callback ran: first what it queued through the context
\* while it ran, then queue.push(r) with the value it returned.
PushReturn(q, ctx, r) == QPush(QPushAll(q, ctx), r)

\* QuitVetoed with the answer ignored: every confirmation quits.
QuitVetoedNever(r) == FALSE

\* The answer of the event callback to the quit confirmation is a veto.
QuitVetoed(r) == r # OkQuit

\* RenderPush that confirms a failed render as well.
RenderPushConfirms(q, r, k) ==
    LET q1 == IF r = "Err" THEN QPush(q, Ctl("Err", "-", "rdret", k)) ELSE q
    IN  IF rendered_event THEN QPush(q1, Ctl("Event", "Rendered", "rdret", k)) ELSE q1

\* render_tui: what the render pass pushes; r is what user render returned.
RenderPush(q, r, k) ==
    IF r = "Err" THEN QPush(q, Ctl("Err", "-", "rdret", k))
    ELSE IF rendered_event THEN QPush(q, Ctl("Event", "Rendered", "rdret", k))
    ELSE q

\* ClosePush with the repaint requested ahead of the event.
ClosePushChangedFirst(q, a) ==
    QPush(QPush(q, Ctl("Changed", "-", "ext", 0)), Ctl("Event", a, "ext", 0))

\* Close(a): push Event(a), then Changed.
ClosePush(q, a) ==
    QPush(QPush(q, Ctl("Event", a, "ext", 0)), Ctl("Changed", "-", "ext", 0))

\* LoopEnd that leaves the loop after every iteration.
LoopEndAlways(q) == "done"

\* LoopEnd that leaves the loop with one entry still queued.
LoopEndEarly(q) == IF Len(q) <= 1 THEN "done" ELSE "drain"

\* "if queue.is_empty() break 'ui" at the end of an iteration.
LoopEnd(q) == IF QIsEmpty(q) THEN "done" ELSE "drain"

Min(a, b) == IF a < b THEN a ELSE b

Taken(c) == [NoDisp EXCEPT !.tag = c.tag, !.role = c.role, !.call = c.call]

\* What no iteration of the loop changes.
LoopFrame ==
    UNCHANGED <<app, exited, ctrl_pressed, cfgVars, compVars, alive, pollVars, chan, cur,
                visible, first_frame, fontlog>>

\* No render pass: the cursor is left alone.
NoRender == UNCHANGED <<cursor, frame_cursor, cursor_reqs>>

\* What an iteration without render pass leaves alone.
DrainFrame == LoopFrame /\ NoRender

\* The side effects of a callback behaviour on the context.
CbEffects(ch) ==
    /\ user_term' = ActUserTerm(ch.act)
    /\ user_win' = ActUserWin(ch.act)
    /\ font_size_changed' = ActFontSizeChanged(ch.act)
    /\ font_changed' = ActFontChanged(ch.act)
    /\ clear_terminal' = ActClearTerminal(ch.act)
    /\ font_size' = ActFontSize(ch.act)

NoCbEffects ==
    UNCHANGED <<user_term, user_win, font_size_changed, font_changed,
                clear_terminal, font_size>>

\* check_liveness() failed: shutdown, break.
DrainLiveness ==
    /\ pc = "drain"
    /\ LivenessFailed
    /\ DoShutdown
    /\ disp' = [NoDisp EXCEPT !.tag = "liveness", !.shut = TRUE]
    /\ NoCbEffects /\ DrainFrame
    /\ UNCHANGED <<queue, was_changed, calls, pushed, runLen, runRenders, vetoed,
                 quitRet>>

\* take() returned None.
DrainEmpty ==
    /\ pc = "drain"
    /\ ~LivenessFailed
    /\ QIsEmpty(queue)
    /\ pc' = "done"
    /\ disp' = [NoDisp EXCEPT !.tag = "empty"]
    /\ NoCbEffects /\ NoShutdown /\ DrainFrame
    /\ UNCHANGED <<queue, was_changed, calls, pushed, runLen, runRenders, vetoed,
                 quitRet>>

\* Ok(Changed) directly after Ok(Changed): continue.
DrainCollapse ==
    /\ pc = "drain"
    /\ ~LivenessFailed
    /\ ~QIsEmpty(queue)
    /\ Collapses(QHead(queue), was_changed)
    /\ queue' = QRest(queue)
    /\ pc' = "drain"
    /\ disp' = [Taken(QHead(queue)) EXCEPT !.collapsed = TRUE]
    /\ runLen' = Min(runLen + 1, 3)
    /\ NoCbEffects /\ NoShutdown /\ DrainFrame
    /\ UNCHANGED <<was_changed, calls, pushed, runRenders, vetoed, quitRet>>

\* Ok(Continue), Ok(Unchanged)
DrainNoop ==
    /\ pc = "drain"
    /\ ~LivenessFailed
    /\ ~QIsEmpty(queue)
    /\ QHead(queue).tag \in {"Continue", "Unchanged"}
    /\ was_changed' = NextWasChanged(QHead(queue))
    /\ queue' = QRest(queue)
    /\ pc' = LoopEnd(queue')
    /\ disp' = Taken(QHead(queue))
    /\ runLen' = 0 /\ runRenders' = 0
    /\ NoCbEffects /\ NoShutdown /\ DrainFrame
    /\ UNCHANGED <<calls, pushed, vetoed, quitRet>>

\* Ok(Blink): backend.blink()
DrainBlink ==
    /\ pc = "drain"
    /\ ~LivenessFailed
    /\ ~QIsEmpty(queue)
    /\ QHead(queue).tag = "Blink"
    /\ was_changed' = NextWasChanged(QHead(queue))
    /\ queue' = QRest(queue)
    /\ pc' = IF terminal THEN LoopEnd(queue') ELSE "panic"
    /\ disp' = Taken(QHead(queue))
    /\ runLen' = 0 /\ runRenders' = 0
    /\ NoCbEffects /\ NoShutdown /\ DrainFrame
    /\ UNCHANGED <<calls, pushed, vetoed, quitRet>>

\* Err(e): the error callback, push its result.
DrainErr(choices) ==
    /\ pc = "drain"
    /\ ~LivenessFailed
    /\ ~QIsEmpty(queue)
    /\ QHead(queue).tag = "Err"
    /\ \E ch \in choices :
        /\ queue' = PushReturn(QRest(queue), CtxCtls(ch.ctx, calls + 1),
                               Ctl(ch.ret[1], ch.ret[2], "erret", calls + 1))
        /\ disp' = [Taken(QHead(queue)) EXCEPT !.cb = "error", !.ret = ch.ret]
        /\ CbEffects(ch)
        /\ pushed' = pushed + Len(ch.ctx)
        /\ pc' = IF ActPanics(ch.act) THEN "panic" ELSE LoopEnd(queue')
    /\ was_changed' = NextWasChanged(QHead(queue))
    /\ calls' = calls + 1
    /\ runLen' = 0 /\ runRenders' = 0
    /\ NoShutdown /\ DrainFrame
    /\ UNCHANGED <<vetoed, quitRet>>

\* Ok(Event(a)): the event callback, push its result.
DrainEvent(choices) ==
    /\ pc = "drain"
    /\ ~LivenessFailed
    /\ ~QIsEmpty(queue)
    /\ QHead(queue).tag = "Event"
    /\ \E ch \in choices :
        /\ queue' = PushReturn(QRest(queue), CtxCtls(ch.ctx, calls + 1),
                               Ctl(ch.ret[1], ch.ret[2], "evret", calls + 1))
        /\ disp' = [Taken(QHead(queue)) EXCEPT !.cb = "event",
                        !.arg = QHead(queue).ev, !.ret = ch.ret]
        /\ CbEffects(ch)
        /\ pushed' = pushed + Len(ch.ctx)
        /\ quitRet' = (quitRet \/ ch.ret = OkQuit)
        /\ pc' = IF ActPanics(ch.act) THEN "panic" ELSE LoopEnd(queue')
    /\ was_changed' = NextWasChanged(QHead(queue))
    /\ calls' = calls + 1
    /\ runLen' = 0 /\ runRenders' = 0
    /\ NoShutdown /\ DrainFrame
    /\ UNCHANGED vetoed

\* SalsaContext::set_screen_cursor: only Some(c) is stored.
SetScreenCursor(c, arg) == IF arg # "none" THEN arg ELSE c

\* The context's cursor after the set_screen_cursor calls reqs, in order.
RECURSIVE CursorAfter(_, _)
CursorAfter(c, reqs) ==
    IF reqs = <<>> THEN c
    ELSE CursorAfter(SetScreenCursor(c, Head(reqs)), Tail(reqs))

\* The cursor render_tui gives the frame: the context's position, else the
\* frame keeps none and the terminal hides the cursor.
FrameCursor(c) == IF c # "none" THEN c ELSE "hidden"

\* Ok(Changed), not skipped: render_tui.  cursorCalls: the sequences of
\* set_screen_cursor arguments the user render may call with.
DrainChanged(cursorCalls) ==
    /\ pc = "drain"
    /\ ~LivenessFailed
    /\ ~QIsEmpty(queue)
    /\ QHead(queue).tag = "Changed"
    /\ ~Collapses(QHead(queue), was_changed)
    /\ \E r \in RenderChoices(calls) :
        /\ queue' = IF terminal THEN RenderPush(QRest(queue), r, calls + 1)
                    ELSE QRest(queue)
        /\ disp' = [Taken(QHead(queue)) EXCEPT !.cb = "render", !.ret = <<r, "-">>]
    /\ pc' = IF terminal THEN LoopEnd(queue') ELSE "panic"
    /\ was_changed' = NextWasChanged(QHead(queue))
    /\ calls' = calls + 1
    /\ runLen' = Min(runLen + 1, 3)
    /\ runRenders' = runRenders + 1
    /\ \E reqs \in cursorCalls :
        IF terminal
        THEN /\ cursor_reqs' = reqs
             /\ frame_cursor' = FrameCursor(CursorAfter(cursor, reqs))
             /\ cursor' = "none"
        ELSE NoRender
    /\ NoCbEffects /\ NoShutdown /\ LoopFrame
    /\ UNCHANGED <<pushed, vetoed, quitRet>>

\* Ok(Close(a)), feature "dialog"
DrainClose ==
    /\ pc = "drain"
    /\ ~LivenessFailed
    /\ ~QIsEmpty(queue)
    /\ QHead(queue).tag = "Close"
    /\ queue' = ClosePush(QRest(queue), QHead(queue).ev)
    /\ pc' = LoopEnd(queue')
    /\ was_changed' = NextWasChanged(QHead(queue))
    /\ disp' = Taken(QHead(queue))
    /\ runLen' = 0 /\ runRenders' = 0
    /\ NoCbEffects /\ NoShutdown /\ DrainFrame
    /\ UNCHANGED <<calls, pushed, vetoed, quitRet>>

\* Ok(Quit) with a quit-confirmation source: ask the event callback.
DrainQuitConfirm(choices) ==
    /\ pc = "drain"
    /\ ~LivenessFailed
    /\ ~QIsEmpty(queue)
    /\ QHead(queue).tag = "Quit"
    /\ quit_event
    /\ \E ch \in choices :
        /\ disp' = [Taken(QHead(queue)) EXCEPT !.cb = "event", !.arg = "QuitEv",
                        !.ret = ch.ret, !.shut = ~QuitVetoed(ch.ret)]
        /\ CbEffects(ch)
        /\ pushed' = pushed + Len(ch.ctx)
        /\ quitRet' = (quitRet \/ ch.ret = OkQuit)
        /\ IF QuitVetoed(ch.ret)
           THEN /\ queue' = PushReturn(QRest(queue), CtxCtls(ch.ctx, calls + 1),
                                Ctl(ch.ret[1], ch.ret[2], "evret", calls + 1))
                /\ pc' = IF ActPanics(ch.act) THEN "panic" ELSE "drain"
                /\ vetoed' = vetoed + 1
                /\ NoShutdown
           ELSE /\ queue' = QPushAll(QRest(queue), CtxCtls(ch.ctx, calls + 1))
                /\ DoShutdown
                /\ UNCHANGED vetoed
    /\ was_changed' = NextWasChanged(QHead(queue))
    /\ calls' = calls + 1
    /\ runLen' = 0 /\ runRenders' = 0
    /\ DrainFrame

\* Ok(Quit) without a quit-confirmation source: shutdown, break.
DrainQuit ==
    /\ pc = "drain"
    /\ ~LivenessFailed
    /\ ~QIsEmpty(queue)
    /\ QHead(queue).tag = "Quit"
    /\ ~quit_event
    /\ queue' = QRest(queue)
    /\ DoShutdown
    /\ disp' = [Taken(QHead(queue)) EXCEPT !.shut = TRUE]
    /\ was_changed' = NextWasChanged(QHead(queue))
    /\ runLen' = 0 /\ runRenders' = 0
    /\ NoCbEffects /\ DrainFrame
    /\ UNCHANGED <<calls, pushed, vetoed, quitRet>>

\* A worker of the thread pool panics.
WorkerDies ==
    /\ tasks /\ alive
    /\ app = "Running"
    /\ alive' = FALSE
    /\ UNCHANGED <<mainVars, cfgVars, compVars, pollVars, chan, histVars, screenVars, logVars>>


\* ----------------------------------------------------- create_poll thread
\* What poll() of a source answers: Ok(true), Ok(false) or Err(e).
PollResults == {"true", "false", "err"}

\* A proxy whose send_event never reports the closed event loop.
SendFailsNever == FALSE

\* EventLoopProxy::send_event fails once the event loop is gone.
SendFails == exited

\* Result<_, _>::expect on the value read() returned.
ReadExpectPanics(r) == r[1] = "Err"

\* PollFrame of a poll thread that calls the event callback itself.
PollFrameCallsBack ==
    /\ disp' = [disp EXCEPT !.cb = "event"]
    /\ UNCHANGED <<mainVars, cfgVars, compVars, alive, can_start, cur, calls, pushed,
                   runLen, runRenders, shutdowns, vetoed, quitRet, screenVars,
                   logVars>>

\* What the poll thread leaves alone: it works on its sources, its
\* poll_queue and the event-loop proxy only.
PollFrame ==
    UNCHANGED <<mainVars, cfgVars, compVars, alive, can_start, histVars, screenVars, logVars>>

\* GateOpen of a thread that does not wait for the start signal.
GateOpenAlways == TRUE

\* "while !*can_start": the thread leaves the wait when the flag is set.
GateOpen == can_start

\* "Wait till we are free to start polling."
PollGate ==
    /\ ppc = "gate"
    /\ GateOpen
    /\ ppc' = "top"
    /\ UNCHANGED <<pidx, poll_queue, poll_sleep, ready, chan>>
    /\ PollFrame

\* IsCanceled of a thread that never looks at the token.
IsCanceledNever == FALSE

\* t_cancel.is_canceled()
IsCanceled == cancel

\* Top of 'l: leave when canceled, else start a polling pass.
PollTop ==
    /\ ppc = "top"
    /\ IF IsCanceled THEN ppc' = "done" /\ UNCHANGED pidx
       ELSE IF poll_queue = <<>> THEN ppc' = "poll" /\ pidx' = 0
       ELSE ppc' = "read" /\ UNCHANGED pidx
    /\ poll_sleep' = IF ppc' = "read" THEN FAST_SLEEP ELSE poll_sleep
    /\ ready' = IF ppc' = "poll" THEN <<>> ELSE ready
    /\ UNCHANGED <<poll_queue, chan>>
    /\ PollFrame

\* AfterPass of a thread that sleeps after every pass.
AfterPassSleeps(pq) == "sleep"

\* Where the thread goes when the polling pass is over.
AfterPass(pq) == IF pq = <<>> THEN "sleep" ELSE "read"

\* Recorded that notes every polled source.
RecordedAlways(pq, i, r) == Append(pq, i)

\* The poll queue after source i answered r: Ok(true) => poll_queue.push(n)
Recorded(pq, i, r) == IF r = "true" THEN Append(pq, i) ELSE pq

\* SleepAfterPass that keeps the sleep when a source is ready.
SleepAfterPassKeeps(pq, next) == poll_sleep

\* poll_sleep when a poll() call leaves the thread at next: the pass is
\* over with a ready source ("Shorter sleep immediately after an event").
SleepAfterPass(pq, next) ==
    IF next = "read" /\ pq # <<>> THEN FAST_SLEEP ELSE poll_sleep

\* BackOff that never loosens the sleep.
BackOffNever(t) == t

\* "Back off slowly." after park_timeout.
BackOff(t) == IF t < SLEEP THEN t + BACKOFF ELSE t

\* One poll() call of the polling pass.
PollOne ==
    /\ ppc = "poll"
    /\ \E r \in PollResults :
        /\ poll_queue' = Recorded(poll_queue, pidx, r)
        /\ ready' = Append(ready, r = "true")
        /\ IF r = "err"
           THEN IF SendFails
                THEN ppc' = "done" /\ UNCHANGED <<chan, pidx>>
                ELSE /\ Len(chan) < MaxChan
                     /\ chan' = Append(chan, <<"Err", "-">>)
                     /\ pidx' = pidx + 1
                     /\ ppc' = IF pidx' = NumSources THEN AfterPass(poll_queue') ELSE "poll"
           ELSE /\ pidx' = pidx + 1
                /\ ppc' = IF pidx' = NumSources THEN AfterPass(poll_queue') ELSE "poll"
                /\ UNCHANGED chan
    /\ poll_sleep' = SleepAfterPass(poll_queue', ppc')
    /\ PollFrame

\* thread::park_timeout returns: the timeout passed or the thread was
\* unparked.
PollSleep ==
    /\ ppc = "sleep"
    /\ ppc' = "top"
    /\ poll_sleep' = BackOff(poll_sleep)
    /\ UNCHANGED <<pidx, poll_queue, ready, chan>>
    /\ PollFrame

\* One round of "while let Some(p_idx) = poll_queue.take()".
PollRead(results) ==
    /\ ppc = "read"
    /\ poll_queue # <<>>
    /\ \E r \in results :
        IF ReadExpectPanics(r)
        THEN ppc' = "panic" /\ UNCHANGED <<poll_queue, chan>>
        ELSE IF SendFails
        THEN ppc' = "done" /\ poll_queue' = Tail(poll_queue) /\ UNCHANGED chan
        ELSE /\ Len(chan) < MaxChan
             /\ chan' = Append(chan, r)
             /\ poll_queue' = Tail(poll_queue)
             /\ ppc' = IF poll_queue' = <<>> THEN "top" ELSE "read"
    /\ UNCHANGED <<pidx, poll_sleep, ready>>
    /\ PollFrame

\* ------------------------------------------------------------ the program
\* The window events and callback side effects of the drain-loop
\* specification; resizing, the font gestures and the context flags are
\* left to a specification of their own.
LoopEvents == {"Destroyed", "CloseRequested", "RedrawRequested", "Key"}
LoopActs == {"clone_term"}

Next ==
    \/ Resumed
    \/ DeliverWindow(LoopEvents)
    \/ DeliverUser
    \/ Return
    \/ DrainLiveness
    \/ DrainEmpty
    \/ DrainCollapse
    \/ DrainNoop
    \/ DrainBlink
    \/ DrainErr(CbChoices(calls, LoopActs))
    \/ DrainEvent(CbChoices(calls, LoopActs))
    \/ DrainChanged({<<>>})
    \/ DrainClose
    \/ DrainQuitConfirm(CbChoices(calls, LoopActs))
    \/ DrainQuit
    \/ WorkerDies

Spec == Init /\ [][Next]_vars

\* ------------------------------------- the program with its poll thread
\* The poll thread next to a main thread whose callbacks answer Continue
\* or Quit and whose window only sends CloseRequested and Destroyed.
PollEvents == {"CloseRequested", "Destroyed"}
PollCbChoices ==
    {[ret |-> r, ctx |-> <<>>, act |-> "none"] : r \in {Continue, OkQuit}}
\* What read() of a source answers: Ok(control) or Err(e).
PollReadResults ==
    { <<"Changed", "-">>, <<"Event", "Key">>, <<"Quit", "-">>, <<"Err", "-">> }

NextPoll ==
    \/ Resumed
    \/ DeliverWindow(PollEvents)
    \/ DeliverChan
    \/ Return
    \/ DrainEmpty
    \/ DrainCollapse
    \/ DrainNoop
    \/ DrainErr(PollCbChoices)
    \/ DrainEvent(PollCbChoices)
    \/ DrainChanged({<<>>})
    \/ DrainQuitConfirm(PollCbChoices)
    \/ DrainQuit
    \/ PollGate
    \/ PollTop
    \/ PollOne
    \/ PollSleep
    \/ PollRead(PollReadResults)

SpecPoll == Init /\ [][NextPoll]_vars

\* ------------------------------------------- the poll thread by itself
\* The poll thread next to a main thread that starts it, takes what it
\* sends, shuts down on Quit and is left by Destroyed; sources answer
\* Continue or Quit and the callbacks answer Continue.
ThreadEvents == {"Destroyed"}
ThreadCbChoices == {[ret |-> Continue, ctx |-> <<>>, act |-> "none"]}
ThreadReadResults == { <<"Continue", "-">>, <<"Quit", "-">> }

NextThread ==
    \/ Resumed
    \/ DeliverWindow(ThreadEvents)
    \/ DeliverChan
    \/ Return
    \/ DrainNoop
    \/ DrainErr(ThreadCbChoices)
    \/ DrainEvent(ThreadCbChoices)
    \/ DrainChanged({<<>>})
    \/ DrainQuitConfirm(ThreadCbChoices)
    \/ DrainQuit
    \/ PollGate
    \/ PollTop
    \/ PollOne
    \/ PollSleep
    \/ PollRead(ThreadReadResults)

SpecThread == Init /\ [][NextThread]_vars

\* The poll thread keeps running while it can, and the event loop keeps
\* delivering what was sent and returning from process_event.
LiveThread ==
    /\ SpecThread
    /\ WF_vars(PollGate) /\ WF_vars(PollTop) /\ WF_vars(PollOne)
    /\ WF_vars(PollSleep) /\ WF_vars(PollRead(ThreadReadResults))
    /\ WF_vars(DeliverChan) /\ WF_vars(Return) /\ WF_vars(DrainNoop)
    /\ WF_vars(DrainQuit) /\ WF_vars(DrainQuitConfirm(ThreadCbChoices))

\* ------------------------------------- the life cycle of the application
\* Startup, the handles the callbacks clone and drop, quit, shutdown and
\* the destruction of the window; the callbacks queue nothing themselves.
StartEvents == {"Destroyed", "CloseRequested", "RedrawRequested", "Key"}
StartActs == {"none", "clone_term", "drop_term", "clone_win", "drop_win"}
StartCbChoices ==
    {[ret |-> r, ctx |-> <<>>, act |-> "none"] : r \in {Continue, OkQuit}}
        \cup {[ret |-> Continue, ctx |-> <<>>, act |-> a] : a \in StartActs}

NextStart ==
    \/ Resumed
    \/ EarlyEvent
    \/ DeliverWindow(StartEvents)
    \/ Return
    \/ DrainNoop
    \/ DrainErr(StartCbChoices)
    \/ DrainEvent(StartCbChoices)
    \/ DrainChanged({<<>>})
    \/ DrainQuitConfirm(StartCbChoices)
    \/ DrainQuit

SpecStart == Init /\ [][NextStart]_vars

\* ------------------------------------------ the fonts and the terminal
\* The Ctrl+wheel gesture, ScaleFactorChanged, Resized and callbacks that
\* call set_font_size, set_font_family and clear_terminal; a callback
\* answers Continue or one more event, so that two callbacks can set
\* their flags in one process_event call.
FontEvents == {"CtrlDown", "CtrlUp", "WheelUp", "WheelDown",
               "ScaleFactorChanged", "Resized", "Key"}
FontActs == {"none", "set_font_size", "set_font_family", "clear_terminal"}
FontCbChoices(n) ==
    {[ret |-> r, ctx |-> <<>>, act |-> a] :
        r \in (IF n < MaxCalls THEN {Continue, <<"Event", "Key">>} ELSE {Continue}),
        a \in FontActs}

NextFont ==
    \/ Resumed
    \/ DeliverWindow(FontEvents)
    \/ Return
    \/ DrainEmpty
    \/ DrainCollapse
    \/ DrainNoop
    \/ DrainErr(FontCbChoices(calls))
    \/ DrainEvent(FontCbChoices(calls))
    \/ DrainChanged({<<>>})

SpecFont == Init /\ [][NextFont]_vars

\* ------------------------------------------------ the order of Control
\* cmp and eq applied to three Control values.
InitControl ==
    /\ InitProgram
    /\ \E a \in ControlValues, b \in ControlValues, c \in ControlValues :
          ord = [NoOrd EXCEPT !.a = a, !.b = b, !.c = c]
    /\ gate = NoGate /\ split = NoSplit /\ mods = NoMods

Compare ==
    /\ ~ord.done
    /\ ord' = [ord EXCEPT !.done = TRUE,
                          !.ab = ControlCmp(ord.a, ord.b),
                          !.ba = ControlCmp(ord.b, ord.a),
                          !.bc = ControlCmp(ord.b, ord.c),
                          !.ac = ControlCmp(ord.a, ord.c),
                          !.eq_ab = ControlEq(ord.a, ord.b)]
    /\ UNCHANGED <<mainVars, cfgVars, alive, pollVars, chan, histVars,
                   screenVars, logVars, gate, split, mods>>

NextControl == Compare

SpecControl == InitControl /\ [][NextControl]_vars

\* ------------------------------------------- the start gate step by step
\* create_poll has spawned the thread; initialize_terminal goes on to
\* init and then calls PollStart::start().
InitGate ==
    /\ InitProgram /\ ord = NoOrd /\ split = NoSplit /\ mods = NoMods
    /\ gate = [NoGate EXCEPT !.t = "spawned"]

GateFrame ==
    UNCHANGED <<mainVars, cfgVars, alive, pollVars, chan, histVars, screenVars,
                logVars, ord, split, mods>>

\* WaitNeeded of a thread that waits before it looks at the flag.
WaitNeededAlways(flag) == TRUE

\* "while !*can_start"
WaitNeeded(flag) == ~flag

\* thread: lock.lock().unwrap()
GateLock ==
    /\ gate.t = "spawned" /\ gate.m = "free"
    /\ gate' = [gate EXCEPT !.t = "locked", !.m = "poll"]
    /\ GateFrame

\* thread: the test of the while loop; cvar.wait(can_start) releases the
\* Mutex, and when the loop is left the guard lives as long as the thread.
GateCheck ==
    /\ gate.t = "locked"
    /\ gate' = IF WaitNeeded(gate.flag)
               THEN [gate EXCEPT !.t = "waiting", !.m = "free"]
               ELSE [gate EXCEPT !.t = "loop"]
    /\ GateFrame

\* thread: cvar.wait returns, notified or spuriously, with the Mutex
\* locked again.
GateWake ==
    /\ gate.t = "waiting" /\ gate.m = "free"
    /\ gate.woken \/ gate.spur < MaxSpurious
    /\ gate' = [gate EXCEPT !.t = "locked", !.m = "poll", !.woken = FALSE,
                            !.spur = IF gate.woken THEN @ ELSE @ + 1]
    /\ GateFrame

\* initialize_terminal from create_poll to poll_start.start(): the
\* context is installed, init is called, Running is installed.
GateInit ==
    /\ gate.s = "init"
    /\ gate' = [gate EXCEPT !.s = "start"]
    /\ GateFrame

\* start(): lock.lock().expect("can_start mutex")
StartLock ==
    /\ gate.s = "start" /\ gate.m = "free"
    /\ gate' = [gate EXCEPT !.s = "locked", !.m = "main"]
    /\ GateFrame

\* start(): *started = true; cvar.notify_one(); the guard is dropped.
\* notify_one wakes the thread if it waits and is forgotten otherwise.
StartNotify ==
    /\ gate.s = "locked"
    /\ gate' = [gate EXCEPT !.s = "done", !.m = "free", !.flag = TRUE,
                            !.woken = (gate.t = "waiting")]
    /\ GateFrame

NextGate ==
    GateLock \/ GateCheck \/ GateWake \/ GateInit \/ StartLock \/ StartNotify

\* Both threads are scheduled again and again.
SpecGate ==
    /\ InitGate /\ [][NextGate]_vars
    /\ WF_vars(GateLock) /\ WF_vars(GateCheck) /\ WF_vars(GateWake)
    /\ WF_vars(GateInit) /\ WF_vars(StartLock) /\ WF_vars(StartNotify)

\* --------------------------------------- run_tui: the poll list is split
\* The PollEvents a RunConfig can hold, by their TypeId; "Other" is any
\* other source (PollCrossterm-like or of the application).  PollTokio
\* exists with the feature "async".
PollKinds == {"Rendered", "Quit", "Timers", "Tasks", "Tokio", "Other"}

\* A loop that keeps PollQuit in the list handed to the poll thread.
IsSetAsideRenderedOnly(k) == k = "Rendered"

\* The two branches that end in `continue`.
IsSetAside(k) == k \in {"Rendered", "Quit"}

\* The loop "for v in poll.into_iter()" from element n on.
RECURSIVE SplitPoll(_, _, _)
SplitPoll(cfg, n, acc) ==
    IF n > Len(cfg)
    THEN acc
    ELSE LET k == cfg[n]
         IN  SplitPoll(cfg, n + 1,
                 [acc EXCEPT
                     !.rendered_ev = IF k = "Rendered" THEN n ELSE @,
                     !.quit_ev     = IF k = "Quit" THEN n ELSE @,
                     !.timers_ctrl = IF k = "Timers" THEN n ELSE @,
                     !.tasks_ctrl  = IF k = "Tasks" THEN n ELSE @,
                     !.tokio_ctrl  = IF k = "Tokio" THEN n ELSE @,
                     !.poll        = IF IsSetAside(k) THEN @ ELSE Append(@, n)])

InitSplit ==
    /\ InitProgram /\ ord = NoOrd /\ gate = NoGate /\ mods = NoMods
    /\ \E c \in SeqsUpTo(PollKinds, MaxPollCfg) : split = [NoSplit EXCEPT !.cfg = c]

RunTuiSplit ==
    /\ ~split.done
    /\ split' = [SplitPoll(split.cfg, 1, split) EXCEPT !.done = TRUE]
    /\ UNCHANGED <<mainVars, cfgVars, alive, pollVars, chan, histVars,
                   screenVars, logVars, ord, gate, mods>>

NextSplit == RunTuiSplit

SpecSplit == InitSplit /\ [][NextSplit]_vars

\* ------------------------------------ the modifiers of a converted event
\* The window events by what update_state does with the modifiers:
\* ModifiersChanged(m) for every ModifiersState m, and any other event.
ModEvents ==
    {[kind |-> "ModifiersChanged", m |-> m] :
        m \in [{"shift", "alt", "control", "super"} -> BOOLEAN]}
    \cup {[kind |-> "Other", m |-> NoModifiers]}

\* WinitEventState::update_state, the modifier fields.
UpdateModifiers(st, e) ==
    IF e.kind = "ModifiersChanged"
    THEN [m_shift |-> e.m.shift, m_alt |-> e.m.alt,
          m_ctrl |-> e.m.control, m_super |-> e.m.super]
    ELSE st

\* CompositeWinitEvent::shift_pressed, alt_pressed, ctrl_pressed and
\* super_pressed of an event that shares the state st.
Accessors(st) ==
    [shift_pressed |-> st.m_shift, alt_pressed |-> st.m_shift,
     ctrl_pressed |-> st.m_shift, super_pressed |-> st.m_shift]

\* ConvertWinit: update_state(event), then convert(event) gives an event
\* whose accessors read the shared state.
ModEvent ==
    /\ mods.n < MaxModEvents
    /\ \E e \in ModEvents :
          LET st == UpdateModifiers(mods.st, e)
          IN  mods' = [st |-> st, n |-> mods.n + 1,
                       last |-> IF e.kind = "ModifiersChanged" THEN e.m ELSE mods.last,
                       acc |-> Accessors(st)]
    /\ UNCHANGED <<mainVars, cfgVars, alive, pollVars, chan, histVars,
                   screenVars, logVars, ord, gate, split>>

NextMods == ModEvent

SpecMods == Init /\ [][NextMods]_vars

\* -------------------------------------- the drain loop with quiet callbacks
\* Every window event and every Control a source or worker can inject,
\* Close(e) among them, with event and error callbacks that answer Continue
\* or Unchanged and queue nothing; init may queue through the context.
DrainControls == UserControls \cup { <<"Close", "Key">> }
DrainCbChoices ==
    {[ret |-> r, ctx |-> <<>>, act |-> "none"] : r \in {Continue, <<"Unchanged", "-">>}}

\* ApplicationHandler::user_event with a Result out of us.
DeliverUserOf(us) ==
    /\ \E u \in us, conv \in BOOLEAN : ProcessEvent("User", u, conv)
    /\ UNCHANGED chan

NextDrain ==
    \/ Resumed
    \/ DeliverWindow(WindowEvents)
    \/ DeliverUserOf(DrainControls)
    \/ Return
    \/ DrainEmpty
    \/ DrainCollapse
    \/ DrainNoop
    \/ DrainBlink
    \/ DrainErr(DrainCbChoices)
    \/ DrainEvent(DrainCbChoices)
    \/ DrainChanged({<<>>})
    \/ DrainClose
    \/ DrainQuitConfirm(DrainCbChoices)
    \/ DrainQuit

SpecDrain == Init /\ [][NextDrain]_vars

\* process_event runs on: an iteration of the drain loop that can be taken
\* is taken, and the call returns to the event loop.
LiveDrain ==
    /\ SpecDrain
    /\ WF_vars(DrainEmpty) /\ WF_vars(DrainCollapse) /\ WF_vars(DrainNoop)
    /\ WF_vars(DrainBlink) /\ WF_vars(DrainErr(DrainCbChoices))
    /\ WF_vars(DrainEvent(DrainCbChoices)) /\ WF_vars(DrainChanged({<<>>}))
    /\ WF_vars(DrainClose) /\ WF_vars(DrainQuitConfirm(DrainCbChoices))
    /\ WF_vars(DrainQuit) /\ WF_vars(Return)

\* ------------------------------------------------ the cursor of a frame
\* Renders that call set_screen_cursor up to MaxCursorCalls times, with
\* None ("none") or one of two positions; the other callbacks answer
\* Continue.
CursorArgs == {"none", "at_1_1", "at_2_1"}
CursorCalls == SeqsUpTo(CursorArgs, MaxCursorCalls)
CursorCbChoices == {[ret |-> Continue, ctx |-> <<>>, act |-> "none"]}

NextCursor ==
    \/ Resumed
    \/ DeliverWindow({"RedrawRequested"})
    \/ Return
    \/ DrainEmpty
    \/ DrainCollapse
    \/ DrainNoop
    \/ DrainErr(CursorCbChoices)
    \/ DrainEvent(CursorCbChoices)
    \/ DrainChanged(CursorCalls)

SpecCursor == Init /\ [][NextCursor]_vars


\* ================================================================ claims
RetRoles == {"evret", "erret"}

\* Positions of the queue holding the value callback call k returned.
RetsOf(q, k) == {i \in 1..Len(q) : q[i].role \in RetRoles /\ q[i].call = k}

\* A step of the main thread (not of a worker or the poll thread).
MainStep == <<mainVars, histVars>>' # <<mainVars, histVars>>

\* C1: while Ok(Changed) entries are taken directly one after the other in
\* one drain loop, exactly one render pass has run for the whole run.
C1_ChangedCollapse == runLen >= 1 => runRenders = 1

\* Three Ok(Changed) were taken in a row and one render pass ran.
C1_Witness == runLen = 3 /\ runRenders = 1 /\ pc = "done"

C3_QuitVeto ==
    [][ ( /\ pc = "drain" /\ quit_event /\ ~(tasks /\ ~alive)
          /\ queue # <<>> /\ Head(queue).tag = "Quit" /\ MainStep )
        => /\ calls' = calls + 1
           /\ disp'.cb = "event" /\ disp'.arg = "QuitEv"
           /\ Len(queue') >= Len(queue) - 1
           /\ SubSeq(queue', 1, Len(queue) - 1) = Tail(queue)
           /\ IF disp'.ret = OkQuit
              THEN shutdowns' = shutdowns + 1 /\ pc' \in {"done", "panic"}
              ELSE /\ shutdowns' = shutdowns /\ terminal' /\ window'
                   /\ pc' = "drain"
                   /\ Cardinality(RetsOf(queue', calls')) = 1
                   /\ queue'[Len(queue')] =
                          Ctl(disp'.ret[1], disp'.ret[2], "evret", calls')
      ]_vars

\* The confirmation was answered with Continue and the loop went on to
\* dispatch that Continue; nothing was shut down.
C3_Witness ==
    /\ quit_event /\ vetoed = 1 /\ shutdowns = 0 /\ terminal
    /\ disp.tag = "Continue" /\ disp.role = "evret" /\ pc = "done"

\* C4: without a quit-confirmation source, once the event callback returned
\* Quit the invocation ends with shutdown executed; shutdown is executed at
\* most once and no render pass runs after it.
C4_QuitShutsDown ==
    /\ [](shutdowns <= 1)
    /\ []((pc \in {"done", "panic"} /\ quitRet /\ ~quit_event) => shutdowns = 1)
    /\ [][shutdowns >= 1 => ~(disp'.cb = "render" /\ calls' = calls + 1)]_vars
    /\ [](shutdowns >= 1 => pc # "drain")

\* The event callback returned Quit, shutdown ran with entries still queued.
C4_Witness ==
    /\ ~quit_event /\ quitRet /\ shutdowns = 1 /\ pc = "done"
    /\ disp.tag = "Quit" /\ disp.role = "evret" /\ ~terminal /\ queue # <<>>

\* C5 as stated: every Err entry taken calls the error callback once, the
\* value it returns is pushed once and dispatched exactly once.
C5_Original ==
    /\ disp.tag = "Err" =>
          disp.cb = "error" /\ Cardinality(RetsOf(queue, calls)) = 1
    /\ disp.role = "erret" => ~disp.collapsed
    /\ pc \in {"done", "panic"} => \A i \in 1..Len(queue) : queue[i].role # "erret"

\* C5 amended: every Err entry taken calls the error callback once and the
\* value it returns is pushed once, at the tail; it is taken at most once,
\* and it is dispatched unless it is a Changed removed by the
\* Changed-collapse rule or shutdown runs before it is taken.
C5_ErrorRouting ==
    /\ disp.tag = "Err" =>
          /\ disp.cb = "error"
          /\ queue # <<>>
          /\ queue[Len(queue)].role = "erret" /\ queue[Len(queue)].call = calls
    /\ \A i, j \in 1..Len(queue) :
          ( /\ queue[i].role \in RetRoles /\ queue[j].role \in RetRoles
            /\ queue[i].call = queue[j].call ) => i = j
    /\ (disp.role = "erret" /\ disp.collapsed) => (disp.tag = "Changed" /\ runLen >= 2)
    /\ (pc = "done" /\ shutdowns = 0 /\ cur # "Destroyed") =>
          \A i \in 1..Len(queue) : queue[i].role # "erret"

\* The value the error callback returned was dispatched.
C5_Witness ==
    /\ disp.role = "erret" /\ ~disp.collapsed /\ disp.tag = "Event"
    /\ disp.cb = "event" /\ shutdowns = 0

\* C6: once shutdown has completed, a process_event call with anything but
\* Destroyed changes nothing: no push, no callback, no handle, no panic.
C6_NoOpAfterShutdown ==
    [][ ( /\ pc = "idle" /\ app = "Running" /\ ~terminal /\ ~window
          /\ cur' \notin {"Resumed", "Destroyed"} )
        => /\ pc' \in {"idle", "done"}
           /\ UNCHANGED <<queue, calls, disp, terminal, window, ctx_term,
                          ctx_window, exited, cancel, shutdowns, was_changed,
                          clear_terminal, font_changed, font_size_changed,
                          font_size, ctrl_pressed>>
      ]_vars

\* An injected Control was delivered after shutdown and was ignored.
C6_Witness ==
    /\ pc = "done" /\ cur = "User" /\ ~terminal /\ ~window /\ shutdowns = 1
    /\ disp = NoDisp /\ calls = 0

\* C7 as stated: whatever was pushed has been taken when process_event
\* returns.
C7_Original == (pc = "done" /\ cur # "Destroyed") => queue = <<>>

\* C7 amended: an invocation that enters the drain loop returns with an
\* empty queue unless shutdown was executed; only a Changed taken directly
\* after another Changed is skipped.
C7_NoEntryLost ==
    /\ (pc = "done" /\ cur # "Destroyed" /\ shutdowns = 0) => queue = <<>>
    /\ disp.collapsed => (disp.tag = "Changed" /\ runLen >= 2)

\* An invocation that ran callbacks and a render pass returned with an empty
\* queue.
C7_Witness ==
    /\ pc = "done" /\ shutdowns = 0 /\ queue = <<>> /\ calls = MaxCalls + 1
    /\ cur = "Key"

\* C8: an iteration that starts with a configured thread pool reporting a
\* dead worker runs shutdown and leaves the loop; it takes no entry and
\* calls no callback.
C8_WorkerLiveness ==
    [][ (pc = "drain" /\ tasks /\ ~alive /\ MainStep)
        => /\ shutdowns' = shutdowns + 1
           /\ pc' \in {"done", "panic"}
           /\ queue' = queue
           /\ calls' = calls
           /\ disp'.cb = "none"
      ]_vars

\* The liveness check shut down while entries were waiting.
C8_Witness ==
    /\ disp.tag = "liveness" /\ shutdowns = 1 /\ queue # <<>> /\ pc = "done"
    /\ ~terminal

\* C9: CloseRequested pushes Ok(Quit) and does nothing else; the loop is
\* exited by Destroyed only, and with a quit-confirmation source shutdown
\* needs the callback's Ok(Quit) (or a dead worker).
C9_CloseRequested ==
    /\ [][ (pc = "idle" /\ cur' = "CloseRequested" /\ terminal /\ window)
           => /\ Len(queue') = Len(queue) + 1
              /\ SubSeq(queue', 1, Len(queue)) = queue
              /\ queue'[Len(queue')].tag = "Quit"
              /\ pc' = "drain"
              /\ UNCHANGED <<terminal, window, ctx_term, ctx_window, exited,
                             cancel, shutdowns>>
         ]_vars
    /\ [][exited' # exited => cur' = "Destroyed"]_vars
    /\ []((quit_event /\ disp.shut) =>
             (disp.tag = "liveness" \/ (disp.tag = "Quit" /\ disp.ret = OkQuit)))

\* The close was vetoed: the invocation returned, nothing is torn down.
C9_Witness ==
    /\ cur = "CloseRequested" /\ quit_event /\ vetoed >= 1 /\ pc = "done"
    /\ shutdowns = 0 /\ terminal /\ window /\ ~exited /\ ~cancel


\* C10: no failure of a poll source panics the poll thread: an Err from
\* poll() or read() is forwarded and the thread goes on.
C10_PollErrorsForwarded == ppc # "panic"

\* C11: the window is made visible only after at least one successful
\* render pass: whenever it is visible, a first frame has been drawn.
\* initialize_terminal calls set_visible(true) directly after init and
\* only requests a redraw, so the window is visible with no frame drawn.
C11_VisibleAfterFirstFrame == visible => first_frame

\* C12: Startup -> Running happens exactly once.  Running is never left;
\* Running is only entered from Startup, by initialize_terminal; resumed
\* delivered in any other state panics and re-creates neither window,
\* terminal, context nor poll thread; a window or user event delivered
\* before Running is installed panics with nothing processed, so the drain
\* loop and the callbacks only run in Running.
C12_StartupOnce ==
    [][ /\ (app = "Running" => app' = "Running")
        /\ (app' = "Running" /\ app # "Running"
                => app = "Startup" /\ pc = "idle" /\ cur' = "Resumed")
        /\ (pc = "idle" /\ cur' = "Resumed" /\ app # "Startup"
                => /\ pc' = "panic"
                   /\ UNCHANGED <<app, terminal, window, ctx_term, ctx_window,
                                  ppc, can_start, queue, visible>>)
        /\ (pc = "idle" /\ cur' # "Resumed" /\ app # "Running"
                => /\ pc' = "panic"
                   /\ UNCHANGED <<app, queue, calls, disp, ctrl_pressed, exited>>)
        /\ (pc' = "drain" \/ calls' # calls => app = "Running")
      ]_vars

\* A second resumed was delivered while Running: it panicked and the
\* window, the terminal and the context are the ones of the first.
C12_Witness ==
    /\ pc = "panic" /\ cur = "Resumed" /\ app = "Running"
    /\ terminal /\ window /\ ctx_term /\ ctx_window

\* C13: shutdown cancels and unparks the poll thread before it drops any
\* handle, and the event loop has exited only with the poll thread
\* cancelled and every handle dropped.  shutdown drops the handles first
\* and calls Poll::shutdown last, and Destroyed exits the event loop
\* whether shutdown ran or not.
C13_ShutdownOrder ==
    /\ (teardown # <<>> => teardown[1] = "cancel")
    /\ (exited => cancel /\ ~terminal /\ ~window /\ ~ctx_term /\ ~ctx_window)

\* C14: shutdown drops the context's copy of the terminal (of the window)
\* before the core's copy, and panics when application code still holds a
\* clone at that point: it completes without panic, with every handle
\* dropped, exactly when no clone from terminal() or window() is held.
C14_TeardownOwnership ==
    [][ shutdowns' # shutdowns =>
          /\ \A i \in 1..Len(teardown') :
                /\ (teardown'[i] = "terminal" => i > 1 /\ teardown'[i - 1] = "ctx_term")
                /\ (teardown'[i] = "window" => i > 1 /\ teardown'[i - 1] = "ctx_window")
          /\ (pc' = "panic" <=> user_term \/ user_win)
          /\ (user_term => teardown' = <<"ctx_term">>)
          /\ (~user_term /\ user_win
                => teardown' = <<"ctx_term", "terminal", "ctx_window">>)
          /\ (pc' # "panic"
                => /\ ~terminal' /\ ~window' /\ ~ctx_term' /\ ~ctx_window'
                   /\ Len(teardown') = 5)
      ]_vars

\* shutdown ran while a callback's clone of the window was held: the
\* terminal was dropped, the window was not.
C14_Witness ==
    /\ shutdowns = 1 /\ pc = "panic" /\ user_win /\ ~user_term
    /\ teardown = <<"ctx_term", "terminal", "ctx_window">>

\* C15: a Destroyed window event delivered to the running application
\* exits the event loop in that very step and process_event returns:
\* the converter state, the queue, the handles, the flags and the font
\* size are as before, no callback is called and nothing is dispatched,
\* whether shutdown has run or not.
C15_DestroyedExits ==
    [][ (pc = "idle" /\ app = "Running" /\ cur' = "Destroyed")
          => /\ exited' /\ pc' = "done"
             /\ UNCHANGED <<queue, was_changed, ctrl_pressed, calls, disp,
                            terminal, window, ctx_term, ctx_window, cancel,
                            clear_terminal, font_changed, font_size_changed,
                            font_size, shutdowns, fontlog, screenVars>>
      ]_vars

\* Destroyed was delivered after shutdown had run with an entry left in
\* the queue: the event loop exited and the entry is still there.
C15_Witness ==
    /\ cur = "Destroyed" /\ pc = "done" /\ exited
    /\ shutdowns = 1 /\ ~terminal /\ queue # <<>>

\* C19: the context is installed before init is called.  When
\* initialize_terminal has run from Startup, the context holds the
\* terminal and the window whether init succeeded or failed, and after a
\* successful init the installed queue holds exactly the entries init
\* queued through the context, in order, and nothing else.
C19_ContextBeforeInit ==
    [][ (pc = "idle" /\ app = "Startup" /\ cur' = "Resumed")
          => /\ ctx_term' /\ ctx_window'
             /\ (app' = "Running"
                   => /\ Len(queue') = pushed'
                      /\ \A i \in 1..Len(queue') :
                            /\ queue'[i].role = "ctx" /\ queue'[i].call = 0
                            /\ <<queue'[i].tag, queue'[i].ev>> \in CtxEntries)
      ]_vars

\* init queued an event through the context and it is in the queue when
\* initialize_terminal returns.
C19_Witness ==
    /\ cur = "Resumed" /\ app = "Running" /\ pc = "idle" /\ pushed = 1
    /\ queue = <<Ctl("Event", "Key", "ctx", 0)>>
    /\ ctx_term /\ ctx_window

\* C16: font reloads are coalesced.  When process_event finds a font
\* trigger pending (font_changed or font_size_changed set by callbacks,
\* ScaleFactorChanged or the Ctrl+wheel gesture), however many, its font
\* blocks run exactly one reload with one terminal clear and push exactly
\* one resize-equivalent Control, and both flags are false afterwards;
\* with font_changed pending the one reload is reload_fonts.  Without a
\* trigger nothing is reloaded.  The only other clears of the call are
\* those of a Resized event and of a pending clear_terminal request.
C16_FontCoalescing ==
    [][ (pc = "idle" /\ pc' = "drain")
          => LET l == fontlog'
                 trigger == l.fc \/ l.fsc \/ l.evt
             IN  /\ ~font_changed' /\ ~font_size_changed' /\ ~clear_terminal'
                 /\ Len(l.blocks) = (IF trigger THEN 1 ELSE 0)
                 /\ l.pushes = Len(l.blocks)
                 /\ (l.fc => l.blocks = <<"reload_fonts">>)
                 /\ l.clears = Len(l.blocks) + (IF cur' = "Resized" THEN 1 ELSE 0)
                                  + (IF l.clr THEN 1 ELSE 0)
                 /\ Len(queue') = Len(queue) + l.pushes
                        + (IF cur' = "Resized" THEN 1 ELSE 0)
                        + (IF Converts(cur', ctrl_pressed') THEN 1 ELSE 0)
      ]_vars

\* Callbacks had set font_changed and font_size_changed and the next
\* event was ScaleFactorChanged: one reload_fonts, one clear, one push.
C16_Witness ==
    /\ pc = "drain" /\ cur = "ScaleFactorChanged"
    /\ fontlog.fc /\ fontlog.fsc /\ fontlog.evt
    /\ fontlog.blocks = <<"reload_fonts">>
    /\ fontlog.pushes = 1 /\ fontlog.clears = 1
    /\ ~font_changed /\ ~font_size_changed

\* C17: with Ctrl tracked as pressed a wheel line event with dy > 0 takes
\* one unit off a font size above the minimum 7 and leaves a size at the
\* minimum unchanged, any other line event adds one unit; the size never
\* falls below 7; font_size_changed is set in every case, so the font is
\* reloaded in the same call, and the wheel event is not converted: the
\* only entry the call queues is the resize-equivalent Control.
C17_FontGesture ==
    [][ (pc = "idle" /\ pc' = "drain" /\ ctrl_pressed
            /\ cur' \in {"WheelUp", "WheelDown"})
          => /\ (cur' = "WheelUp" /\ font_size > MinFontSize
                    => font_size' = font_size - 1)
             /\ (cur' = "WheelUp" /\ font_size = MinFontSize
                    => font_size' = font_size)
             /\ (cur' = "WheelDown" => font_size' = font_size + 1)
             /\ font_size' >= MinFontSize
             /\ fontlog'.evt /\ Len(fontlog'.blocks) = 1
             /\ Len(queue') = Len(queue) + 1
             /\ queue'[Len(queue')].tag \in {"Changed", "Event"}
             /\ queue'[Len(queue')].ev \in {"-", "Resize"}
      ]_vars

\* The gesture asked for a smaller font at the minimum size: the size
\* stayed, the font was reloaded.
C17_Witness ==
    /\ pc = "drain" /\ cur = "WheelUp" /\ ctrl_pressed
    /\ font_size = MinFontSize
    /\ fontlog.evt /\ fontlog.blocks = <<"change_font_size">>

\* C20: the cursor of a frame is what the last set_screen_cursor call of
\* its render asked for: the position of Some(pos), hidden for None, and
\* hidden when the render made no call.  set_screen_cursor(None) stores
\* nothing, so a position set earlier in the same render stays.
C20_CursorOfLastCall ==
    disp.cb = "render" /\ pc # "panic"
        => frame_cursor =
              (IF cursor_reqs = <<>> \/ cursor_reqs[Len(cursor_reqs)] = "none"
               THEN "hidden" ELSE cursor_reqs[Len(cursor_reqs)])

\* C18: callbacks run on the main thread only, one at a time.  A step of
\* the spawned poll thread changes nothing but its own position, its
\* poll_queue and the proxy's channel: no callback is called and no state
\* of the application or the context changes.  A step in which a callback
\* of the drain loop runs is a step of one process_event invocation, calls
\* exactly one callback and moves nothing of the poll thread.
C18_CallbacksOnMainThread ==
    [][ /\ (ppc # "unspawned" /\ <<ppc, pidx, poll_queue>>' # <<ppc, pidx, poll_queue>>
              => UNCHANGED <<mainVars, cfgVars, alive, can_start, histVars,
                             screenVars, logVars>>)
        /\ (calls' # calls /\ calls' # 0
              => /\ pc = "drain" /\ app = "Running"
                 /\ calls' = calls + 1
                 /\ UNCHANGED <<pollVars, chan>>)
        /\ (disp'.cb # "none" /\ disp' # disp => calls' = calls + 1)
      ]_vars

\* The poll thread is about to read a source while a process_event
\* invocation that has called a callback is in its drain loop.
C18_Witness ==
    /\ ppc = "read" /\ pc = "drain" /\ calls >= 1 /\ disp.cb = "event"

\* The place of a variant in Continue < Unchanged < Changed < Event <
\* Close < Quit.
Rank(a) ==
    CASE a.tag = "Continue" -> 0 [] a.tag = "Unchanged" -> 1 [] a.tag = "Changed" -> 2
      [] a.tag = "Event" -> 3 [] a.tag = "Close" -> 4 [] a.tag = "Quit" -> 5

\* C21: cmp on Control is the total order Continue < Unchanged < Changed
\* < Event < Close < Quit of the variants: it answers Less, Equal or
\* Greater by the variants alone, is antisymmetric and transitive, and eq
\* holds exactly when cmp answers Equal, so that two Event values with
\* different payloads are equal.
C21_ControlOrder ==
    ord.done =>
        /\ ord.ab = (IF Rank(ord.a) < Rank(ord.b) THEN "Less"
                     ELSE IF Rank(ord.a) = Rank(ord.b) THEN "Equal" ELSE "Greater")
        /\ (ord.ab = "Less" <=> ord.ba = "Greater")
        /\ (ord.ab = "Equal" <=> ord.ba = "Equal")
        /\ (ord.ab \in {"Less", "Equal"} /\ ord.bc \in {"Less", "Equal"}
              => ord.ac \in {"Less", "Equal"})
        /\ (ord.ab = "Less" /\ ord.bc \in {"Less", "Equal"} => ord.ac = "Less")
        /\ (ord.ab \in {"Less", "Equal"} /\ ord.bc = "Less" => ord.ac = "Less")
        /\ (ord.eq_ab <=> ord.ab = "Equal")
        /\ (ord.a.tag = "Event" /\ ord.b.tag = "Event" => ord.eq_ab)

\* Event(x) and Event(y) were compared: Equal and equal, and both are
\* below Quit.
C21_Witness ==
    /\ ord.done /\ ord.a = [tag |-> "Event", ev |-> "x"]
    /\ ord.b = [tag |-> "Event", ev |-> "y"] /\ ord.c.tag = "Quit"
    /\ ord.ab = "Equal" /\ ord.eq_ab /\ ord.ac = "Less"

\* C22: the adaptive poll sleep.  The sleep after a pass that found no
\* ready source never lowers poll_sleep; poll_sleep is lowered only by the
\* poll() call that ends a pass in which a source was ready, and that
\* call sets it to FAST_SLEEP before the thread reads and sleeps again; a
\* poll() call that does not end such a pass leaves poll_sleep alone.
C22_AdaptiveSleep ==
    [][ /\ (ppc = "sleep" => poll_sleep' >= poll_sleep)
        /\ (poll_sleep' < poll_sleep
              => /\ poll_sleep' = FAST_SLEEP
                 /\ ppc = "poll" /\ ppc' = "read"
                 /\ \E i \in 1..Len(ready') : ready'[i])
        /\ (ppc = "poll" /\ ppc' = "read" => poll_sleep' = FAST_SLEEP)
        /\ (ppc = "poll" /\ ppc' # "read" => poll_sleep' = poll_sleep)
      ]_vars

\* After a ready source set the sleep to FAST_SLEEP, two empty passes
\* have loosened it twice.
C22_Witness ==
    ppc = "top" /\ poll_sleep = FAST_SLEEP + 2 * BACKOFF /\ poll_queue = <<>>

\* C23: poll_sleep stays between FAST_SLEEP and the ceiling SLEEP.  The
\* backoff is added whenever poll_sleep < SLEEP, so from FAST_SLEEP it
\* steps over the ceiling.
C23_SleepBound == FAST_SLEEP <= poll_sleep /\ poll_sleep <= SLEEP

\* C24: the start gate.  While PollStart::start() has not been called
\* the spawned poll thread is at its gate: it has polled and read no
\* source and sent nothing.  start() is called by initialize_terminal
\* only, in the step in which init has returned Ok and Running is
\* installed; after a failed init the gate stays closed.
C24_StartGate ==
    [][ /\ (~can_start'
              => /\ ppc' \in {"unspawned", "gate"}
                 /\ ready' = <<>> /\ poll_queue' = <<>> /\ chan' = <<>>)
        /\ (can_start' /\ ~can_start
              => pc = "idle" /\ cur' = "Resumed" /\ app = "Startup" /\ app' = "Running")
        /\ (app' = "Invalid" => ~can_start')
      ]_vars

\* init failed: the thread was spawned and waits at the closed gate.
C24_Witness ==
    ppc = "gate" /\ ~can_start /\ app = "Invalid" /\ pc = "panic" /\ chan = <<>>

\* C25: whatever the interleaving of start() with the thread's lock, its
\* test of the flag and its wait, start() returns, the thread enters its
\* polling loop, and it enters it only with the flag set; start() finds
\* the Mutex free although the thread keeps its guard once it is in the
\* loop, because the thread gets there only after start() has set the
\* flag.
C25_GateLiveness ==
    /\ <>(gate.s = "done")
    /\ <>(gate.t = "loop")
    /\ [](gate.t = "loop" => gate.flag /\ gate.s = "done" /\ gate.m = "poll")

\* start() notified the thread during its wait.
C25_Witness ==
    gate.t = "waiting" /\ gate.woken /\ gate.s = "done" /\ gate.flag

C28_NoStarvation ==
    [][ /\ (ppc = "poll" /\ ppc' \in {"sleep", "read"}
              => /\ pidx' = NumSources /\ Len(ready') = NumSources
                 /\ \A i \in 0..(NumSources - 1) :
                       ready'[i + 1] <=> \E k \in 1..Len(poll_queue') : poll_queue'[k] = i
                 /\ (ppc' = "read" <=> \E i \in 1..NumSources : ready'[i]))
        /\ (ppc = "read" /\ ppc' \in {"read", "top"} /\ poll_queue' # poll_queue
              => /\ poll_queue' = Tail(poll_queue)
                 /\ Len(chan') = Len(chan) + 1
                 /\ (ppc' = "top" <=> poll_queue' = <<>>))
        /\ (ppc' = "poll" /\ ppc # "poll" => poll_queue = <<>>)
      ]_vars

\* Both sources were ready in one pass: the first was read and
\* forwarded, the second is next.
C28_Witness ==
    /\ ppc = "read" /\ ready = <<TRUE, TRUE>> /\ poll_queue = <<1>>
    /\ Len(chan) = 1

OfKind(l, k) == {i \in 1..Len(l) : split.cfg[l[i]] = k}

\* C30: run_tui takes PollQuit and PollRendered out of the list that the
\* poll thread polls and reads, and keeps them in quit_event and
\* rendered_event, which only the main thread reads; every other source,
\* PollTimers, PollTasks and PollTokio among them, stays in the polled list
\* in its configured order, and the handle of a configured PollTimers,
\* PollTasks or PollTokio that the context exposes is the handle of a
\* source in the polled list.
C30_PollListSplit ==
    split.done =>
        /\ \A i \in 1..Len(split.poll) :
              split.cfg[split.poll[i]] \notin {"Quit", "Rendered"}
        /\ \A n \in 1..Len(split.cfg) :
              split.cfg[n] \notin {"Quit", "Rendered"}
                  => \E i \in 1..Len(split.poll) : split.poll[i] = n
        /\ \A i \in 1..Len(split.poll), j \in 1..Len(split.poll) :
              i < j => split.poll[i] < split.poll[j]
        /\ (split.quit_ev # 0) = (\E n \in 1..Len(split.cfg) : split.cfg[n] = "Quit")
        /\ (split.rendered_ev # 0)
              = (\E n \in 1..Len(split.cfg) : split.cfg[n] = "Rendered")
        /\ split.quit_ev # 0 => split.cfg[split.quit_ev] = "Quit"
        /\ split.rendered_ev # 0 => split.cfg[split.rendered_ev] = "Rendered"
        /\ (split.timers_ctrl # 0) = (OfKind(split.poll, "Timers") # {})
        /\ (split.tasks_ctrl # 0) = (OfKind(split.poll, "Tasks") # {})
        /\ (split.tokio_ctrl # 0) = (OfKind(split.poll, "Tokio") # {})
        /\ split.timers_ctrl # 0
              => \E i \in OfKind(split.poll, "Timers") : split.poll[i] = split.timers_ctrl
        /\ split.tasks_ctrl # 0
              => \E i \in OfKind(split.poll, "Tasks") : split.poll[i] = split.tasks_ctrl
        /\ split.tokio_ctrl # 0
              => \E i \in OfKind(split.poll, "Tokio") : split.poll[i] = split.tokio_ctrl

C30_Witness ==
    /\ split.done
    /\ split.cfg = <<"Quit", "Timers", "Rendered">>
    /\ split.poll = <<2>> /\ split.quit_ev = 1 /\ split.rendered_ev = 3
    /\ split.timers_ctrl = 2

\* C31: a render pass pushes at most one entry.  When user render returned
\* Err(e) it is Err(e) and no rendered confirmation; when render returned Ok
\* and a rendered-confirmation source is configured it is what that source's
\* read() gives; when render returned Ok and no such source is configured
\* nothing is pushed.
C31_RenderOutcome ==
    [][(pc = "drain" /\ calls' = calls + 1 /\ disp'.cb = "render" /\ pc' # "panic")
        => /\ Len(queue') <= Len(QRest(queue)) + 1
           /\ disp'.ret[1] = "Err"
                => queue' = Append(QRest(queue), Ctl("Err", "-", "rdret", calls'))
           /\ (disp'.ret[1] = "Ok" /\ rendered_event)
                => queue' = Append(QRest(queue), Ctl("Event", "Rendered", "rdret", calls'))
           /\ (disp'.ret[1] = "Ok" /\ ~rendered_event)
                => queue' = QRest(queue)]_vars

\* A render failed although a rendered-confirmation source is configured:
\* the error is the entry the pass left at the tail.
C31_Witness ==
    /\ disp.cb = "render" /\ disp.ret[1] = "Err" /\ rendered_event
    /\ queue # <<>>
    /\ queue[Len(queue)] = Ctl("Err", "-", "rdret", calls)

\* C32: a ScaleFactorChanged event only sets font_size_changed: with no
\* font reload pending when it arrives, the process_event call that handles
\* it runs neither change_font_size nor reload_fonts and leaves the flag set
\* for a later call.
C32_ScaleFactorDeferred ==
    [][ (pc = "idle" /\ pc' = "drain" /\ cur' = "ScaleFactorChanged"
            /\ ~font_changed /\ ~font_size_changed)
          => (fontlog'.blocks = <<>> /\ font_size_changed') ]_vars

\* C33: a Resized window event resizes the backend, reads the window size
\* back and hands it to the event converter, clears the terminal and pushes
\* exactly one entry behind what the queue held: Event(resize) when the
\* converter yields one and Changed otherwise.  The raw event is consumed:
\* it is not given to convert and no entry is pushed for it a second time;
\* the only further entries are those of pending font reloads.
C33_ResizedHandling ==
    [][ (pc = "idle" /\ pc' = "drain" /\ cur' = "Resized")
          => LET l == fontlog'
                 n == Len(queue)
             IN  /\ SubSeq(l.steps, 1, 7)
                      = <<"update_state", "backend_resize", "window_size",
                          "set_window_size", "clear", "resized_event", "push_resized">>
                 /\ \A i \in 1..Len(l.steps) :
                       l.steps[i] \notin {"convert", "push_event"}
                 /\ Len(queue') = n + 1 + l.pushes
                 /\ SubSeq(queue', 1, n) = queue
                 /\ l.rsz = "some" => queue'[n + 1] = Ctl("Event", "Resize", "ext", 0)
                 /\ l.rsz = "none" => queue'[n + 1] = Ctl("Changed", "-", "ext", 0)
      ]_vars

\* A Resized event for which the converter gave a resize event, with no
\* reload pending: one entry is queued.
C33_Witness ==
    /\ pc = "drain" /\ cur = "Resized" /\ fontlog.rsz = "some"
    /\ fontlog.blocks = <<>> /\ fontlog.clears = 1
    /\ queue = <<Ctl("Event", "Resize", "ext", 0)>>

\* C35: for every window event delivered to process_event while the
\* application runs (not Destroyed, terminal and window present) the prelude
\* runs, and update_state is its first call and is called once, before the
\* interceptions and the conversion, also for CloseRequested,
\* RedrawRequested, Resized, ScaleFactorChanged and the Ctrl+wheel gesture;
\* the tracked Ctrl modifier is what the event reported.  An injected
\* Result is no window event and updates nothing.
C35_StateTracking ==
    /\ [][ (pc = "idle" /\ cur' \in WindowEvents \ {"Destroyed"}
              /\ pc' # pc /\ app = "Running" /\ terminal /\ window)
            => /\ pc' = "drain"
               /\ Head(fontlog'.steps) = "update_state"
               /\ Cardinality({i \in 1..Len(fontlog'.steps) :
                                  fontlog'.steps[i] = "update_state"}) = 1
               /\ cur' = "CtrlDown" => ctrl_pressed'
               /\ cur' = "CtrlUp" => ~ctrl_pressed'
               /\ cur' \notin {"CtrlDown", "CtrlUp"} => ctrl_pressed' = ctrl_pressed
         ]_vars
    /\ [][ (pc = "idle" /\ pc' = "drain" /\ cur' = "User")
            => /\ \A i \in 1..Len(fontlog'.steps) : fontlog'.steps[i] # "update_state"
               /\ ctrl_pressed' = ctrl_pressed ]_vars

\* Ctrl was reported as pressed, then a wheel event came: the state was
\* tracked first and the interception of the gesture followed.
C35_Witness ==
    /\ pc = "drain" /\ cur = "WheelDown" /\ ctrl_pressed
    /\ SubSeq(fontlog.steps, 1, 3) = <<"update_state", "font_size", "set_font_size_changed">>

\* C34: dispatching Close(e) pushes Event(e) and then Changed behind what
\* the queue holds, in that order, so the event callback runs for e before
\* the render pass of that Changed; the Changed is not collapsed, because
\* the entry taken before it is the Event; and after every dispatched Close
\* a render pass follows, unless shutdown (or a panic) intervenes.
C34_CloseHandling ==
    /\ [][ (pc = "drain" /\ disp' # disp /\ disp'.tag = "Close" /\ queue' # queue)
            => queue' = QRest(queue)
                          \o << Ctl("Event", QHead(queue).ev, "ext", 0),
                                Ctl("Changed", "-", "ext", 0) >> ]_vars
    /\ [][ (pc = "drain" /\ queue # <<>> /\ queue' # queue /\ shutdowns' = shutdowns
              /\ disp.tag = "Event" /\ QHead(queue).tag = "Changed")
            => (disp'.cb = "render" /\ ~disp'.collapsed) ]_vars
    /\ [](disp.tag = "Close" => <>(disp.cb = "render" \/ shutdowns > 0 \/ pc = "panic"))

\* Close(e) was injected and dispatched, the event callback ran for e and
\* answered Continue, and the render pass has run: the answer is left.
C34_Witness ==
    /\ pc = "drain" /\ cur = "User" /\ disp.cb = "render" /\ disp.role = "ext"
    /\ calls = 2 /\ shutdowns = 0 /\ ~rendered_event
    /\ queue = <<Ctl("Continue", "-", "evret", 1)>>

\* C36 as stated: with callbacks that answer Continue or Unchanged and queue
\* nothing, every drain loop ends, and it ends with an empty queue.
C36_Original ==
    /\ [](pc = "drain" => <>(pc = "done"))
    /\ [][ (pc = "drain" /\ pc' = "done") => queue' = <<>> ]_vars

\* C36: process_event leaves its drain loop only with an empty queue or
\* after it executed shutdown; with callbacks that answer Continue or
\* Unchanged and queue nothing the loop ends after finitely many iterations,
\* whatever the queue held, and it ends with an empty queue unless it
\* executed shutdown (a Quit without confirmation source), which leaves the
\* entries behind the Quit in the queue.
C36_DrainTermination ==
    /\ [](pc = "drain" => <>(pc = "done"))
    /\ [][ (pc = "drain" /\ pc' = "done")
            => (queue' = <<>> \/ shutdowns' = shutdowns + 1) ]_vars
    /\ [][ (pc = "drain" /\ pc' = "done" /\ shutdowns' = shutdowns + 1)
            => disp'.shut ]_vars
    /\ [][ (pc = "drain" /\ pc' = "drain") => shutdowns' = shutdowns ]_vars

\* A Quit was vetoed by the confirmation callback and the loop went on
\* until the queue was empty.
C36_Witness ==
    /\ pc = "done" /\ queue = <<>> /\ vetoed = 1 /\ shutdowns = 0
    /\ disp.tag = "Continue" /\ disp.role = "evret"

\* C37: the was_changed marker is a local of one process_event call.  It is
\* false when the drain loop is entered; every taken entry that is not
\* Ok(Changed) resets it (Continue, Unchanged, Event, Err, Close, Blink, a
\* Quit whether vetoed or not); an Ok(Changed) taken while it is false is
\* rendered and sets it, an Ok(Changed) taken while it is set is skipped.
\* So Changed entries separated by another entry, or taken in different
\* calls, are each rendered.
C37_CollapseScope ==
    /\ [][ (pc = "idle" /\ pc' = "drain") => ~was_changed' ]_vars
    /\ [][ (pc = "drain" /\ MainStep /\ ~QIsEmpty(queue) /\ ~LivenessFailed)
            => LET c == QHead(queue)
               IN  /\ c.tag # "Changed" => ~was_changed'
                   /\ (c.tag = "Changed" /\ ~was_changed)
                        => /\ was_changed' /\ disp'.cb = "render" /\ ~disp'.collapsed
                           /\ calls' = calls + 1
                   /\ (c.tag = "Changed" /\ was_changed)
                        => /\ was_changed' /\ disp'.collapsed /\ disp'.cb = "none"
                           /\ calls' = calls ]_vars

\* RedrawRequested was rendered, the rendered event was answered with
\* Changed, and that Changed was rendered as well: the third callback call
\* of the invocation is the second render pass.
C37_Witness ==
    /\ cur = "RedrawRequested" /\ calls = 3 /\ was_changed
    /\ disp.tag = "Changed" /\ disp.cb = "render" /\ disp.role = "evret" /\ disp.call = 2
    /\ queue = <<Ctl("Event", "Rendered", "rdret", 3)>>

C39_ShutdownOnce ==
    /\ [](pc # "panic" => /\ terminal = window
                          /\ ctx_term = terminal /\ ctx_window = window)
    /\ [](shutdowns <= 1 /\ (shutdowns = 1 /\ pc # "panic" => ~terminal /\ cancel))
    /\ []((app = "Running" /\ ~terminal) => shutdowns = 1)
    /\ [][ (app = "Running" /\ ~terminal /\ ~window)
            => /\ shutdowns' = shutdowns
               /\ UNCHANGED <<terminal, window, ctx_term, ctx_window, teardown>>
       ]_vars

\* After the shutdown a CloseRequested was delivered, which would push
\* Quit: the call returned at once and shutdown did not run again.
C39_Witness ==
    /\ pc = "done" /\ cur = "CloseRequested" /\ shutdowns = 1
    /\ ~terminal /\ ~window /\ ~ctx_term /\ ~ctx_window
    /\ disp = NoDisp /\ teardown # <<>>

\* C40: after any sequence of window events applied through update_state
\* the accessors of a converted event answer the modifiers as last
\* reported by ModifiersChanged: shift_pressed the shift key, alt_pressed
\* the alt key, ctrl_pressed the control key, super_pressed the super key.
C40_ModifierAccessors ==
    mods.n > 0 =>
        /\ mods.acc.shift_pressed = mods.last.shift
        /\ mods.acc.alt_pressed = mods.last.alt
        /\ mods.acc.ctrl_pressed = mods.last.control
        /\ mods.acc.super_pressed = mods.last.super


====
